---- MODULE Spec2Model ----
(***************************************************************************)
(* State-machine model of the qa-bot-ts resume retrieval service:          *)
(*   - ChatMemoryManager / ConversationStore (lib/memory/chatMemory.ts)    *)
(*   - ConversationalFilter (lib/conversationalFilter.ts)                  *)
(*   - LLMReranker (pipelines/retrieval/llmReranker.ts)                    *)
(*   - the POST /chat, POST /chat/history and DELETE /chat/:id handlers    *)
(*     of server.ts, with ConversationalRAGChainManager.chat and           *)
(*     RetrievalPipeline.search as the full-search branch.                 *)
(* Every await of the source is a point where another request may run.     *)
(***************************************************************************)
EXTENDS Integers, Sequences, FiniteSets, TLC

(***************************************************************************)
(* Bounds of the model.                                                    *)
(***************************************************************************)
\* number of chat requests (server) or addExchange calls (memory manager)
MaxReq == 2
\* largest maxMessages a memory manager is constructed with
MaxCapacity == 4
\* number of resume documents a search can return
MaxDocs == 2
\* longest list of verdicts in an LLM response
MaxVerdicts == 2

(***************************************************************************)
(* Sequence helpers.                                                       *)
(***************************************************************************)
Range(s) == {s[i] : i \in 1..Len(s)}

\* Array.prototype.slice(from) with a 0-based start index
SliceFrom(s, from) == SubSeq(s, from + 1, Len(s))

\* Array.prototype.slice(0, n)
SliceTo(s, n) == SubSeq(s, 1, IF n < Len(s) THEN n ELSE Len(s))

\* Array.prototype.filter
RECURSIVE SelectSeqOp(_, _)
SelectSeqOp(s, keep) ==
    IF s = <<>> THEN <<>>
    ELSE IF keep[Head(s)] THEN <<Head(s)>> \o SelectSeqOp(Tail(s), keep)
         ELSE SelectSeqOp(Tail(s), keep)

\* all sequences without repetition over S, of length at most n
RECURSIVE SeqsNoDup(_, _)
SeqsNoDup(S, n) ==
    IF n = 0 THEN {<<>>}
    ELSE LET shorter == SeqsNoDup(S, n - 1)
         IN shorter \cup
            {Append(s, x) : <<s, x>> \in {p \in shorter \X S : p[2] \notin Range(p[1])}}

\* all sequences over S of length at most n
RECURSIVE SeqsUpTo(_, _)
SeqsUpTo(S, n) ==
    IF n = 0 THEN {<<>>}
    ELSE LET shorter == SeqsUpTo(S, n - 1)
         IN shorter \cup {Append(s, x) : s \in shorter, x \in S}

(***************************************************************************)
(* ConversationalFilter.isFilterQuery: a message is a string, modelled as  *)
(* the sequence of its characters.                                         *)
(***************************************************************************)
UpperChars == <<"A","B","C","D","E","F","G","H","I","J","K","L","M",
                "N","O","P","Q","R","S","T","U","V","W","X","Y","Z">>
LowerChars == <<"a","b","c","d","e","f","g","h","i","j","k","l","m",
                "n","o","p","q","r","s","t","u","v","w","x","y","z">>

\* String.prototype.toLowerCase, one character
LowerChar(ch) ==
    IF \E i \in 1..Len(UpperChars) : UpperChars[i] = ch
    THEN LowerChars[CHOOSE i \in 1..Len(UpperChars) : UpperChars[i] = ch]
    ELSE ch

toLowerCase(str) == [i \in 1..Len(str) |-> LowerChar(str[i])]

\* String.prototype.includes
includes(str, sub) ==
    \E i \in 0..(Len(str) - Len(sub)) : SubSeq(str, i + 1, i + Len(sub)) = sub

filterKeywords ==
    << <<"o","n","l","y">>,
       <<"f","i","l","t","e","r">>,
       <<"s","h","o","w"," ","m","e">>,
       <<"d","i","s","p","l","a","y">>,
       <<"f","r","o","m"," ","t","h","o","s","e">>,
       <<"f","r","o","m"," ","t","h","e"," ","a","b","o","v","e">>,
       <<"f","r","o","m"," ","p","r","e","v","i","o","u","s">>,
       <<"f","r","o","m"," ","t","h","e","s","e">>,
       <<"a","m","o","n","g"," ","t","h","e","m">>,
       <<"o","u","t"," ","o","f"," ","t","h","e","s","e">>,
       <<"n","a","r","r","o","w"," ","d","o","w","n">>,
       <<"r","e","f","i","n","e">> >>

isFilterQuery(query) ==
    LET lowerQuery == toLowerCase(query)
    IN \E k \in 1..Len(filterKeywords) : includes(lowerQuery, filterKeywords[k])

\* The chat messages the model sends: "find QA" and "Only Pune"
MsgFindQA == <<"f","i","n","d"," ","Q","A">>
MsgOnlyPune == <<"O","n","l","y"," ","P","u","n","e">>
Messages == {MsgFindQA, MsgOnlyPune}

(***************************************************************************)
(* Search result items.  Scores are fixed-point: ScoreOne stands for 1.0.  *)
(***************************************************************************)
ScoreOne == 600

\* n tenths as a score
Tenths(n) == n * (ScoreOne \div 10)

\* the resume documents of the store; two of them share the name "A"
Docs ==
    { [name |-> "A", email |-> "a1@x", phoneNumber |-> "111", content |-> "resume a1", score |-> Tenths(5)],
      [name |-> "B", email |-> "b@x",  phoneNumber |-> "222", content |-> "resume b",  score |-> Tenths(8)],
      [name |-> "A", email |-> "a2@x", phoneNumber |-> "333", content |-> "resume a2", score |-> Tenths(3)] }

\* SearchResultItem as a first-stage engine returns it
EngineItem(doc, matchType) ==
    [name |-> doc.name, email |-> doc.email, phoneNumber |-> doc.phoneNumber,
     content |-> doc.content, score |-> doc.score, matchType |-> matchType,
     llmReasoning |-> "undefined", extractedInfo |-> "undefined"]

\* lists of at most n result items of one engine: no document twice
CandidateLists(n, matchType) ==
    {[i \in 1..Len(ds) |-> EngineItem(ds[i], matchType)] : ds \in SeqsNoDup(Docs, n)}

(***************************************************************************)
(* The chat model's answer.  A response text is a sequence of tokens: a    *)
(* ``` fence, the json tag after a fence, prose, or one JSON value.        *)
(***************************************************************************)
NoValue == [kind |-> "none", matchesOk |-> FALSE, summaryOk |-> FALSE, matches |-> <<>>]
TokFence == [t |-> "fence", v |-> NoValue]
TokTag == [t |-> "tag", v |-> NoValue]
TokProse == [t |-> "prose", v |-> NoValue]
TokJson(v) == [t |-> "json", v |-> v]

Formats == {"raw", "fenced", "fencedJson", "proseFenced", "rawProse", "openFence"}

ResponseText(format, v) ==
    CASE format = "raw" -> <<TokJson(v)>>
      [] format = "fenced" -> <<TokFence, TokJson(v), TokFence>>
      [] format = "fencedJson" -> <<TokFence, TokTag, TokJson(v), TokFence>>
      [] format = "proseFenced" -> <<TokProse, TokFence, TokTag, TokJson(v), TokFence, TokProse>>
      [] format = "rawProse" -> <<TokProse, TokJson(v)>>
      [] format = "openFence" -> <<TokFence, TokJson(v)>>

\* responseText.match(/```(?:json)?\s*([\s\S]*?)\s*```/): the first fenced block
jsonMatch(text) ==
    LET fences == {i \in 1..Len(text) : text[i].t = "fence"}
        opens == {i \in fences : \E j \in fences : j > i}
    IN IF opens = {} THEN [found |-> FALSE, group |-> <<>>]
       ELSE LET i == CHOOSE x \in opens : \A y \in opens : x <= y
                j == CHOOSE x \in fences : x > i /\ \A y \in fences : y > i => x <= y
                from == IF i + 1 < j /\ text[i + 1].t = "tag" THEN i + 2 ELSE i + 1
            IN [found |-> TRUE, group |-> SubSeq(text, from, j - 1)]

\* JSON.parse(jsonStr.trim()): the text must be exactly one JSON value
jsonParse(jsonStr) ==
    IF Len(jsonStr) = 1 /\ jsonStr[1].t = "json"
    THEN [ok |-> TRUE, value |-> jsonStr[1].v]
    ELSE [ok |-> FALSE, value |-> NoValue]

extractJson(text) ==
    LET m == jsonMatch(text)
        jsonStr == IF m.found THEN m.group ELSE text
    IN jsonParse(jsonStr)

(***************************************************************************)
(* LLMReranker: schema, fallbacks, rerankAndFilter.                        *)
(***************************************************************************)
\* ResumeMatchSchema
ResumeMatchSchemaOk(match) ==
    /\ match.wellTyped
    /\ match.relevanceScore >= 0
    /\ match.relevanceScore <= ScoreOne

LLMRerankResponseSchemaLenient(rawJson) ==
    /\ rawJson.kind = "rerank"
    /\ rawJson.matchesOk
    /\ rawJson.summaryOk

\* LLMRerankResponseSchema.parse
LLMRerankResponseSchemaOk(rawJson) ==
    /\ rawJson.kind = "rerank"
    /\ rawJson.matchesOk
    /\ rawJson.summaryOk
    /\ \A i \in 1..Len(rawJson.matches) : ResumeMatchSchemaOk(rawJson.matches[i])

parseRerankResponse(text) ==
    LET raw == extractJson(text)
    IN IF raw.ok /\ LLMRerankResponseSchemaOk(raw.value)
       THEN [ok |-> TRUE, value |-> raw.value]
       ELSE [ok |-> FALSE, value |-> NoValue]

\* candidates.map(c => ({name, relevanceScore: c.score, reasoning, matchesCriteria: true}))
fallbackMatches(candidates, reasoning) ==
    [i \in 1..Len(candidates) |->
        [name |-> candidates[i].name, relevanceScore |-> candidates[i].score,
         matchesCriteria |-> TRUE, reasoning |-> reasoning,
         extractedInfo |-> "undefined", wellTyped |-> TRUE]]

rerankParseFallbackBroken(candidates) ==
    [results |-> <<>>,
     summary |-> "Failed to parse LLM response",
     matches |-> <<>>, llmCalls |-> 1]

rerankParseFallback(candidates) ==
    [results |-> candidates,
     summary |-> "Failed to parse LLM response",
     matches |-> fallbackMatches(candidates, "LLM parsing failed"),
     llmCalls |-> 1]

rerankErrorFallback(candidates) ==
    [results |-> candidates,
     summary |-> "Error during LLM analysis",
     matches |-> fallbackMatches(candidates, "Error during LLM analysis"),
     llmCalls |-> 1]

\* candidates.find(c => c.name === match.name): 0 when there is none
findCandidate(candidates, name) ==
    LET hits == {i \in 1..Len(candidates) : candidates[i].name = name}
    IN IF hits = {} THEN 0 ELSE CHOOSE i \in hits : \A j \in hits : i <= j

enhancedResultKeepsTag(originalCandidate, match) ==
    [originalCandidate EXCEPT !.score = match.relevanceScore,
                              !.llmReasoning = match.reasoning,
                              !.extractedInfo = match.extractedInfo]

\* {...originalCandidate, score, matchType, llmReasoning, extractedInfo}
enhancedResult(originalCandidate, match) ==
    [originalCandidate EXCEPT !.score = match.relevanceScore,
                              !.matchType = "llm-reranked",
                              !.llmReasoning = match.reasoning,
                              !.extractedInfo = match.extractedInfo]

rerankOneUnchecked(candidates, match) ==
    IF ~match.matchesCriteria THEN <<>>
    ELSE LET i == findCandidate(candidates, match.name)
         IN IF i = 0
            THEN <<[name |-> match.name, email |-> "undefined", phoneNumber |-> "undefined",
                    content |-> "undefined", score |-> match.relevanceScore,
                    matchType |-> "llm-reranked", llmReasoning |-> match.reasoning,
                    extractedInfo |-> match.extractedInfo]>>
            ELSE <<enhancedResult(candidates[i], match)>>

\* one turn of the loop over parsedResponse.matches: what it pushes
rerankOne(candidates, match) ==
    IF ~match.matchesCriteria THEN <<>>
    ELSE LET i == findCandidate(candidates, match.name)
         IN IF i = 0 THEN <<>> ELSE <<enhancedResult(candidates[i], match)>>

RECURSIVE rerankLoop(_, _)
rerankLoop(candidates, matches) ==
    IF matches = <<>> THEN <<>>
    ELSE rerankOne(candidates, Head(matches)) \o rerankLoop(candidates, Tail(matches))

sortByScoreDescNone(items) == items

RECURSIVE insertBeforeTies(_, _)
insertBeforeTies(sorted, x) ==
    IF sorted = <<>> THEN <<x>>
    ELSE IF Head(sorted).score > x.score
         THEN <<Head(sorted)>> \o insertBeforeTies(Tail(sorted), x)
         ELSE <<x>> \o sorted

\* Array.prototype.sort((a, b) => b.score - a.score): stable, descending
RECURSIVE insertByScore(_, _)
insertByScore(sorted, x) ==
    IF sorted = <<>> THEN <<x>>
    ELSE IF Head(sorted).score >= x.score
         THEN <<Head(sorted)>> \o insertByScore(Tail(sorted), x)
         ELSE <<x>> \o sorted

RECURSIVE sortByScoreDesc(_)
sortByScoreDesc(items) ==
    IF items = <<>> THEN <<>>
    ELSE insertByScore(sortByScoreDesc(SubSeq(items, 1, Len(items) - 1)), items[Len(items)])

rerankAndFilterNoEmptyCheck(candidates, llm) ==
    IF llm.throws THEN rerankErrorFallback(candidates)
    ELSE rerankParseFallback(candidates)

\* llm: [throws, text]; the result carries the number of model.invoke calls made
rerankAndFilter(candidates, llm) ==
    IF candidates = <<>>
    THEN [results |-> <<>>, summary |-> "No candidates to analyze",
          matches |-> <<>>, llmCalls |-> 0]
    ELSE IF llm.throws THEN rerankErrorFallback(candidates)
    ELSE LET parsedResponse == parseRerankResponse(llm.text)
         IN IF ~parsedResponse.ok THEN rerankParseFallback(candidates)
            ELSE [results |-> sortByScoreDesc(rerankLoop(candidates, parsedResponse.value.matches)),
                  summary |-> "llm summary",
                  matches |-> parsedResponse.value.matches,
                  llmCalls |-> 1]

(***************************************************************************)
(* ConversationalFilter.filterResults.                                     *)
(***************************************************************************)
\* the structuredResults map of the chat handler: what is cached
structured(result) ==
    [name |-> result.name, email |-> result.email, phoneNumber |-> result.phoneNumber,
     score |-> result.score, matchType |-> result.matchType,
     extractedInfo |-> result.extractedInfo, llmReasoning |-> result.llmReasoning]

structuredResults(searchResults) ==
    [i \in 1..Len(searchResults) |-> structured(searchResults[i])]

\* FilteredResultSchema
FilteredResultSchemaOk(fr) == fr.wellTyped

\* FilterResponseSchema.parse
FilterResponseSchemaOk(rawJson) ==
    /\ rawJson.kind = "filter"
    /\ rawJson.filteredResultsOk
    /\ rawJson.summaryOk
    /\ \A i \in 1..Len(rawJson.filteredResults) :
          FilteredResultSchemaOk(rawJson.filteredResults[i])

parseFilterResponse(text) ==
    LET raw == extractJson(text)
    IN IF raw.ok /\ FilterResponseSchemaOk(raw.value)
       THEN [ok |-> TRUE, value |-> raw.value]
       ELSE [ok |-> FALSE, value |-> NoValue]

filterParseFallbackBroken(cachedResults) ==
    [filtered |-> <<>>,
     summary |-> "Failed to parse filter response. Returning all cached results.",
     llmCalls |-> 1]

filterParseFallback(cachedResults) ==
    [filtered |-> cachedResults,
     summary |-> "Failed to parse filter response. Returning all cached results.",
     llmCalls |-> 1]

filterErrorFallback(cachedResults) ==
    [filtered |-> cachedResults,
     summary |-> "Error during filtering",
     llmCalls |-> 1]

filterDecisionAnyVerdict(filteredResults, result) ==
    \E i \in 1..Len(filteredResults) :
        filteredResults[i].name = result.name /\ filteredResults[i].matches

\* parsedResponse.filteredResults.find(fr => fr.name === result.name), then .matches
filterDecision(filteredResults, result) ==
    LET hits == {i \in 1..Len(filteredResults) : filteredResults[i].name = result.name}
    IN IF hits = {} THEN FALSE
       ELSE filteredResults[CHOOSE i \in hits : \A j \in hits : i <= j].matches

filterResults(cachedResults, llm) ==
    IF cachedResults = <<>>
    THEN [filtered |-> <<>>, summary |-> "No cached results to filter", llmCalls |-> 0]
    ELSE IF llm.throws THEN filterErrorFallback(cachedResults)
    ELSE LET parsedResponse == parseFilterResponse(llm.text)
         IN IF ~parsedResponse.ok THEN filterParseFallback(cachedResults)
            ELSE [filtered |->
                      SelectSeqOp(cachedResults,
                          [r \in Range(cachedResults) |->
                              filterDecision(parsedResponse.value.filteredResults, r)]),
                  summary |-> "llm summary",
                  llmCalls |-> 1]

(***************************************************************************)
(* The chat model's answers the model draws from.                          *)
(***************************************************************************)
LlmThrows == [throws |-> TRUE, text |-> <<>>]
LlmText(text) == [throws |-> FALSE, text |-> text]

\* names a verdict can carry: the candidates' names and one nobody has
VerdictNames == {"A", "B", "Z"}

\* well-typed verdicts of a re-rank response, and ones the schema rejects
GoodMatches ==
    {[name |-> n, relevanceScore |-> sc, matchesCriteria |-> mc, reasoning |-> "because",
      extractedInfo |-> "info", wellTyped |-> TRUE] :
        n \in VerdictNames, sc \in {Tenths(2), Tenths(9)}, mc \in BOOLEAN}
BadMatches ==
    {[name |-> "A", relevanceScore |-> sc, matchesCriteria |-> TRUE, reasoning |-> "because",
      extractedInfo |-> "info", wellTyped |-> TRUE] : sc \in {-1, ScoreOne + 1}}
    \cup {[name |-> "B", relevanceScore |-> Tenths(9), matchesCriteria |-> TRUE, reasoning |-> "because",
           extractedInfo |-> "info", wellTyped |-> FALSE]}

RerankValue(matches) ==
    [kind |-> "rerank", matchesOk |-> TRUE, summaryOk |-> TRUE, matches |-> matches]
RerankValues(n) ==
    {RerankValue(ms) : ms \in SeqsUpTo(GoodMatches \cup BadMatches, n)}
    \cup {[kind |-> "rerank", matchesOk |-> FALSE, summaryOk |-> TRUE, matches |-> <<>>],
          [kind |-> "rerank", matchesOk |-> TRUE, summaryOk |-> FALSE, matches |-> <<>>]}

RerankResponses(n) ==
    {LlmThrows, LlmText(<<TokProse>>)}
    \cup {LlmText(ResponseText(f, v)) : f \in Formats, v \in RerankValues(n)}

\* verdicts of a filter response
GoodFiltered ==
    {[name |-> n, matches |-> m, reasoning |-> "because", wellTyped |-> TRUE] :
        n \in VerdictNames, m \in BOOLEAN}
BadFiltered ==
    {[name |-> "A", matches |-> TRUE, reasoning |-> "because", wellTyped |-> FALSE]}

FilterValue(frs) ==
    [kind |-> "filter", filteredResultsOk |-> TRUE, summaryOk |-> TRUE, filteredResults |-> frs]
FilterValues(n) ==
    {FilterValue(frs) : frs \in SeqsUpTo(GoodFiltered \cup BadFiltered, n)}
    \cup {[kind |-> "filter", filteredResultsOk |-> FALSE, summaryOk |-> TRUE,
           filteredResults |-> <<>>],
          [kind |-> "filter", filteredResultsOk |-> TRUE, summaryOk |-> FALSE,
           filteredResults |-> <<>>]}

FilterResponses(n) ==
    {LlmThrows, LlmText(<<TokProse>>)}
    \cup {LlmText(ResponseText(f, v)) : f \in Formats, v \in FilterValues(n)}

(***************************************************************************)
(* The search engines: VectorSearchEngine, KeywordSearchEngine and         *)
(* HybridSearchEngine.  Weights are in tenths: WeightOne stands for 1.0.   *)
(***************************************************************************)
WeightOne == 10

\* what the vector store returns, best first: documents with their raw similarity
VectorHits ==
    { [name |-> "A", email |-> "a1@x", phoneNumber |-> "111", content |-> "resume a1",
       score |-> Tenths(9)],
      [name |-> "C", email |-> "c@x", phoneNumber |-> "444", content |-> "resume c",
       score |-> Tenths(7)],
      [name |-> "A", email |-> "a2@x", phoneNumber |-> "333", content |-> "resume a2",
       score |-> Tenths(10)],
      [name |-> "B", email |-> "b@x", phoneNumber |-> "222", content |-> "resume b",
       score |-> 0 - Tenths(1)] }

\* largest number of capture groups in the regular expression made of the query
MaxGroups == 1

\* a query, as far as the keyword score depends on it: query.split(/\s+/).join("|")
\* goes into new RegExp unescaped, so its parentheses are capture groups
Queries == {[groups |-> g] : g \in 0..MaxGroups}

\* what the collection returns to the keyword query: documents, each with the
\* number of occurrences of query tokens in its fields
KeywordDocs ==
    { [name |-> "A", email |-> "a1@x", phoneNumber |-> "111", content |-> "...a1 match...",
       occurrences |-> [text |-> 0, name |-> 1, email |-> 0, skills |-> 2, role |-> 1]],
      [name |-> "B", email |-> "b@x", phoneNumber |-> "222", content |-> "b",
       occurrences |-> [text |-> 0, name |-> 1, email |-> 1, skills |-> 0, role |-> 1]],
      [name |-> "A", email |-> "a2@x", phoneNumber |-> "333", content |-> "...a2 match...",
       occurrences |-> [text |-> 3, name |-> 1, email |-> 1, skills |-> 1, role |-> 1]] }

\* two more documents of the collection: one whose fields weigh as much as those of
\* a1@x, one the query matches in its company field only, which has no weight
TiedDocs ==
    { [name |-> "D", email |-> "d1@x", phoneNumber |-> "555", content |-> "...d1 match...",
       occurrences |-> [text |-> 1, name |-> 1, email |-> 1, skills |-> 1, role |-> 0]],
      [name |-> "E", email |-> "e1@x", phoneNumber |-> "666", content |-> "...e1 match...",
       occurrences |-> [text |-> 0, name |-> 0, email |-> 0, skills |-> 0, role |-> 0]] }

\* (field.match(searchRegex) || []).length, searchRegex having the flag i and no
\* flag g: null without a match, else the first match and one entry per capture group
matchLength(occurrences, query) ==
    IF occurrences = 0 THEN 0 ELSE 1 + query.groups

\* totalScore * 2: content 1.0, name 2.0, email 1.5, skills 3.0, role 2.5
totalScore2(doc, query) ==
    2 * matchLength(doc.occurrences.text, query)
    + 4 * matchLength(doc.occurrences.name, query)
    + 3 * matchLength(doc.occurrences.email, query)
    + 6 * matchLength(doc.occurrences.skills, query)
    + 5 * matchLength(doc.occurrences.role, query)

\* content.length of the snippets above
contentLength(content) ==
    CASE content = "b" -> 1
      [] content \in {"resume a1", "resume a2"} -> 9
      [] content = "resume c" -> 8
      [] OTHER -> 14

normalizeVectorScoreNone(score) == score

\* Math.max(0, Math.min(1, score))
normalizeVectorScore(score) ==
    IF score < 0 THEN 0 ELSE IF score > ScoreOne THEN ScoreOne ELSE score

\* VectorSearchEngine.search: searchWithScores(query, topK), then the map
vectorSearch(hits, topK) ==
    LET results == SliceTo(hits, topK)
    IN [i \in 1..Len(results) |->
           EngineItem([results[i] EXCEPT !.score = normalizeVectorScore(@)], "vector")]

\* Math.min(totalScore / 30, 1.0)
normalizedScore(total2) ==
    IF total2 >= 60 THEN ScoreOne ELSE (total2 * ScoreOne) \div 60

\* KeywordSearchEngine.search: find(..).limit(topK * 2), the map, sort, slice(0, topK)
keywordSearch(query, documents, topK) ==
    LET found == SliceTo(documents, topK * 2)
        results == [i \in 1..Len(found) |->
                       [name |-> found[i].name, email |-> found[i].email,
                        phoneNumber |-> found[i].phoneNumber, content |-> found[i].content,
                        score |-> normalizedScore(totalScore2(found[i], query)),
                        matchType |-> "keyword",
                        llmReasoning |-> "undefined", extractedInfo |-> "undefined"]]
    IN SliceTo(sortByScoreDesc(results), topK)

\* result.score * weight
weightedScore(score, weight) == (score * weight) \div WeightOne

mapIndexNone(mergedMap, name) == 0

\* the position of the entry of this key in the map, 0 when there is none
mapIndex(mergedMap, name) ==
    LET hits == {i \in 1..Len(mergedMap) : mergedMap[i].name = name}
    IN IF hits = {} THEN 0 ELSE CHOOSE i \in hits : TRUE

\* mergedMap.set(result.name, {...result, score, matchType: "hybrid"}): a key the map
\* holds keeps its place
mapSet(mergedMap, result, score) ==
    LET entry == [result EXCEPT !.score = score, !.matchType = "hybrid"]
        i == mapIndex(mergedMap, result.name)
    IN IF i = 0 THEN Append(mergedMap, entry) ELSE [mergedMap EXCEPT ![i] = entry]

\* vectorResults.forEach(..)
RECURSIVE mergeVector(_, _, _)
mergeVector(mergedMap, vectorResults, config) ==
    IF vectorResults = <<>> THEN mergedMap
    ELSE mergeVector(mapSet(mergedMap, Head(vectorResults),
                            weightedScore(Head(vectorResults).score, config.vectorWeight)),
                     Tail(vectorResults), config)

\* keywordResults.forEach(..)
RECURSIVE mergeKeyword(_, _, _)
mergeKeyword(mergedMap, keywordResults, config) ==
    IF keywordResults = <<>> THEN mergedMap
    ELSE LET result == Head(keywordResults)
             score == weightedScore(result.score, config.keywordWeight)
             i == mapIndex(mergedMap, result.name)
             merged ==
                 IF i = 0 THEN mapSet(mergedMap, result, score)
                 ELSE [mergedMap EXCEPT
                          ![i].score = @ + score,
                          ![i].content =
                              IF contentLength(result.content) > contentLength(@)
                              THEN result.content ELSE @]
         IN mergeKeyword(merged, Tail(keywordResults), config)

\* HybridSearchEngine.mergeResults, with this.config as it is when the merge runs
mergeResults(vectorResults, keywordResults, config) ==
    mergeKeyword(mergeVector(<<>>, vectorResults, config), keywordResults, config)

\* HybridSearchEngine.search once both engines have answered
hybridSearch(query, hits, documents, topK, config) ==
    LET fetchSize == topK * 3
        mergedResults == mergeResults(vectorSearch(hits, fetchSize),
                                      keywordSearch(query, documents, fetchSize), config)
    IN SliceTo(sortByScoreDesc(mergedResults), topK)

(***************************************************************************)
(* State.                                                                  *)
(***************************************************************************)
VARIABLES
    retrievalPipeline,  \* server.ts: "null" until initializeRetrievalPipeline sets it
    startup,            \* "pending" until the app.listen callback has run
    rerankEnabled,      \* RetrievalPipeline.llmRerankConfig.enabled
    config,             \* HybridSearchEngine.config: vectorWeight, keywordWeight
    maxMessages,        \* ChatMemoryManager.maxMessages
    conversations,      \* ConversationStore.conversations: id -> manager (0: no entry)
    managers,           \* the ChatMemoryManager objects: messages, lastSearchResults
    req,                \* the chat requests (or addExchange callers) and where each stands
    call,               \* the arguments of a call of a pure function under check
    ret                 \* what that call returned

vars == <<retrievalPipeline, startup, rerankEnabled, config, maxMessages, conversations,
          managers, req, call, ret>>
pipelineVars == <<retrievalPipeline, startup, rerankEnabled, config>>
storeVars == <<conversations, managers>>
callVars == <<call, ret>>

Requests == 1..MaxReq
ManagerIds == 1..MaxReq

\* conversation ids: 0 is an id a client makes up, r is the id generated for request r
NoId == -1
ClientId == 0
ConvIds == 0..MaxReq

\* the topK the chat handler passes to ragChain.chat
ChatTopK == 10

NoManager == [created |-> FALSE, messages |-> <<>>, lastSearchResults |-> <<>>]
NoCalls == [keyword |-> 0, embedding |-> 0, vector |-> 0, storeWrite |-> 0, chat |-> 0]
NewReq ==
    [pc |-> "new", supplied |-> NoId, conversationId |-> NoId, message |-> <<>>,
     mgr |-> 0, path |-> "none", cachedResults |-> <<>>,
     searchResults |-> <<>>, response |-> "", recent |-> <<>>, status |-> 0,
     calls |-> NoCalls, llmThrew |-> FALSE, candidates |-> <<>>, topK |-> ChatTopK]
NotCalled == [fn |-> "none"]
NotReturned == [done |-> FALSE]

HumanMessage(r) == [role |-> "user", req |-> r]
AIMessage(r) == [role |-> "assistant", req |-> r]

(***************************************************************************)
(* ChatMemoryManager and ConversationStore.                                *)
(***************************************************************************)
\* ChatMessageHistory.addMessage on manager m
addMessage(m, msg) ==
    [managers EXCEPT ![m].messages = Append(@, msg)]

hasSearchResults(m) == Len(managers[m].lastSearchResults) > 0

getLastSearchResults(m) == managers[m].lastSearchResults

\* the store after getOrCreate(id); the manager it returns is getOrCreateResult
FreshManager == CHOOSE m \in ManagerIds : ~managers[m].created /\
                    \A k \in ManagerIds : ~managers[k].created => m <= k
getOrCreateResult(id) ==
    IF conversations[id] # 0 THEN conversations[id] ELSE FreshManager
conversationsAfterGetOrCreate(id) ==
    [conversations EXCEPT ![id] = getOrCreateResult(id)]
managersAfterGetOrCreate(id) ==
    IF conversations[id] # 0 THEN managers
    ELSE [managers EXCEPT ![FreshManager] =
             [created |-> TRUE, messages |-> <<>>, lastSearchResults |-> <<>>]]

(***************************************************************************)
(* POST /chat (server.ts), with ConversationalRAGChainManager.chat and     *)
(* RetrievalPipeline.search(.., "hybrid", ..) as its full-search branch.   *)
(***************************************************************************)
\* what the chat model answers to the filter and re-rank prompts of a chat request
ChatFilterResponses ==
    {LlmThrows, LlmText(<<TokProse>>)}
    \cup {LlmText(ResponseText("fencedJson", FilterValue(<<fr>>))) :
            fr \in {x \in GoodFiltered : x.name = "B"}}
ChatRerankResponses ==
    {LlmThrows, LlmText(<<TokProse>>)}
    \cup {LlmText(ResponseText("raw", RerankValue(<<m>>))) :
            m \in {x \in GoodMatches : x.name = "B" /\ x.relevanceScore = Tenths(9)}}

\* what HybridSearchEngine.search can return: one entry per name, best score first
HybridLists ==
    {c \in CandidateLists(MaxDocs, "hybrid") :
        /\ \A i, j \in 1..Len(c) : i < j => c[i].name # c[j].name
        /\ \A i, j \in 1..Len(c) : i < j => c[i].score >= c[j].score
        /\ Len(c) # 1
        /\ \A i \in 1..Len(c) : c[i].email # "a2@x"}

\* the conversationId field of a request body: absent, or an id the client holds
SuppliedIds == {NoId, ClientId}

\* the topK field of a request body: a value the client sends, or the schema's default
SuppliedTopKs == {1, ChatTopK}

shouldUseFilterOnKeywords(hasCachedResults, isFilter, isExistingConversation) ==
    isFilter \/ (hasCachedResults /\ isExistingConversation)

shouldUseFilterNoFollowUp(hasCachedResults, isFilter, isExistingConversation) ==
    hasCachedResults /\ isFilter

shouldUseFilter(hasCachedResults, isFilter, isExistingConversation) ==
    hasCachedResults /\ (isFilter \/ isExistingConversation)

NotInitialized == "Retrieval pipeline not initialized"

pipelineMissingNever(pipeline) == FALSE

\* if (!retrievalPipeline)
pipelineMissing(pipeline) == pipeline = "null"

\* the handler up to its first await, for one request body: validation passed, the
\* path is chosen
ChatReceiveOf(r, supplied, message, topK) ==
    /\ req[r].pc = "new"
    /\ \A q \in Requests : q < r => req[q].pc # "new"
    /\   IF pipelineMissing(retrievalPipeline)
         THEN /\ req' = [req EXCEPT ![r] =
                    [NewReq EXCEPT !.pc = "done", !.supplied = supplied,
                                   !.message = message, !.topK = topK, !.status = 400,
                                   !.response = NotInitialized]]
              /\ UNCHANGED storeVars
         ELSE LET conversationId == IF supplied = NoId THEN r ELSE supplied
                  isNewConversation == supplied = NoId
                  m == getOrCreateResult(conversationId)
                  mgrs == managersAfterGetOrCreate(conversationId)
                  hasCachedResults == Len(mgrs[m].lastSearchResults) > 0
                  useFilter == shouldUseFilter(hasCachedResults, isFilterQuery(message),
                                               ~isNewConversation)
              IN /\ conversations' = conversationsAfterGetOrCreate(conversationId)
                 /\ managers' = mgrs
                 /\ req' = [req EXCEPT ![r] =
                       [NewReq EXCEPT !.supplied = supplied, !.message = message,
                                      !.topK = topK,
                                      !.conversationId = conversationId, !.mgr = m,
                                      !.pc = IF useFilter THEN "filter" ELSE "search",
                                      !.path = IF useFilter THEN "filter" ELSE "hybrid",
                                      !.cachedResults =
                                          IF useFilter THEN mgrs[m].lastSearchResults
                                          ELSE <<>>]]
    /\ UNCHANGED <<pipelineVars, maxMessages, callVars>>

ChatReceive(r) ==
    \E supplied \in SuppliedIds, message \in Messages, topK \in SuppliedTopKs :
        ChatReceiveOf(r, supplied, message, topK)

addExchangeStartRegisters(r, response) ==
    /\ managers' = addMessage(req[r].mgr, HumanMessage(r))
    /\ conversations' = [conversations EXCEPT ![req[r].conversationId] = req[r].mgr]

\* saveContext's first statement, run in the same turn as the addExchange call
addExchangeStart(r, response) ==
    /\ managers' = addMessage(req[r].mgr, HumanMessage(r))
    /\ UNCHANGED conversations

filterBranchCallsWithSearch(out) ==
    [NoCalls EXCEPT !.chat = out.llmCalls, !.keyword = 1, !.embedding = 1, !.vector = 1,
                    !.storeWrite = 1]

\* the external calls of the filter branch: those of filterResults
filterBranchCalls(out) == [NoCalls EXCEPT !.chat = out.llmCalls]

\* filter branch: filterResults returns, then addExchange is called
ChatFilter(r) ==
    /\ req[r].pc = "filter"
    /\ \E llm \in ChatFilterResponses :
         LET out == filterResults(req[r].cachedResults, llm)
         IN /\ req' = [req EXCEPT ![r].searchResults = out.filtered,
                                  ![r].response = out.summary,
                                  ![r].calls = filterBranchCalls(out),
                                  ![r].llmThrew = (out.llmCalls > 0 /\ llm.throws),
                                  ![r].candidates = req[r].cachedResults,
                                  ![r].pc = "addAI"]
            /\ addExchangeStart(r, out.summary)
    /\ UNCHANGED <<pipelineVars, maxMessages, callVars>>

\* RetrievalPipeline.search(query, "hybrid", topK) given what the store, the
\* embedding client and the chat model answer: the outcome and the external calls made
pipelineSearch(keywordOk, vectorOk, stage1, llm, topK) ==
    LET engineCalls == [NoCalls EXCEPT !.keyword = 1, !.embedding = 1, !.vector = 1]
    IN IF ~(keywordOk /\ vectorOk)
       THEN [ok |-> FALSE, results |-> <<>>, calls |-> engineCalls]
       ELSE IF rerankEnabled /\ Len(stage1) > 0
       THEN LET rerankedData == rerankAndFilter(stage1, llm)
            IN [ok |-> TRUE, results |-> SliceTo(rerankedData.results, topK),
                calls |-> [engineCalls EXCEPT !.chat = rerankedData.llmCalls]]
       ELSE [ok |-> TRUE, results |-> SliceTo(stage1, topK), calls |-> engineCalls]

\* what the full-search branch can come to: the pipeline's outcome, then chain.invoke
SearchOutcomes ==
    {[found |-> pipelineSearch(keywordOk, vectorOk, stage1, llm, ChatTopK),
      candidates |-> IF keywordOk /\ vectorOk THEN stage1 ELSE <<>>,
      llmThrew |-> keywordOk /\ vectorOk /\ rerankEnabled /\ Len(stage1) > 0 /\ llm.throws,
      chainOk |-> chainOk] :
        keywordOk \in BOOLEAN, vectorOk \in BOOLEAN, stage1 \in HybridLists,
        llm \in ChatRerankResponses, chainOk \in BOOLEAN}

\* full-search branch: ragChain.chat runs the pipeline, then chain.invoke writes the
\* answer, then addExchange is called; a failure of either ends the request with 400
ChatSearch(r) ==
    /\ req[r].pc = "search"
    /\ \E o \in SearchOutcomes :
         IF ~o.found.ok
         THEN /\ o.chainOk
              /\ req' = [req EXCEPT ![r].calls = o.found.calls,
                                    ![r].response = "Hybrid search failed",
                                    ![r].status = 400,
                                    ![r].pc = "done"]
              /\ UNCHANGED storeVars
         ELSE IF ~o.chainOk
         THEN /\ req' = [req EXCEPT ![r].calls = [o.found.calls EXCEPT !.chat = @ + 1],
                                    ![r].llmThrew = o.llmThrew,
                                    ![r].candidates = o.candidates,
                                    ![r].response = "chat model failed",
                                    ![r].status = 400,
                                    ![r].pc = "done"]
              /\ UNCHANGED storeVars
         ELSE /\ req' = [req EXCEPT ![r].calls = [o.found.calls EXCEPT !.chat = @ + 1],
                                    ![r].llmThrew = o.llmThrew,
                                    ![r].candidates = o.candidates,
                                    ![r].searchResults = o.found.results,
                                    ![r].response = "answer",
                                    ![r].pc = "addAI"]
              /\ addExchangeStart(r, "answer")
    /\ UNCHANGED <<pipelineVars, maxMessages, callVars>>

\* saveContext's second statement
ChatAddAI(r) ==
    /\ req[r].pc = "addAI"
    /\ managers' = addMessage(req[r].mgr, AIMessage(r))
    /\ req' = [req EXCEPT ![r].pc = "trim"]
    /\ UNCHANGED <<pipelineVars, maxMessages, conversations, callVars>>

\* trimMessages after its getMessages: the length test, chatHistory.clear(), the slice
trimNeeded(messages) == Len(messages) > maxMessages

recentMessagesOneMore(messages, toRemove) == SliceFrom(messages, toRemove - 1)

recentMessagesOldest(messages, toRemove) == SliceTo(messages, maxMessages)

\* messages.slice(toRemove)
recentMessages(messages, toRemove) == SliceFrom(messages, toRemove)

TrimCheck(r) ==
    /\ req[r].pc = "trim"
    /\ LET m == req[r].mgr
           messages == managers[m].messages
       IN IF trimNeeded(messages)
          THEN LET toRemove == Len(messages) - maxMessages
               IN /\ managers' = [managers EXCEPT ![m].messages = <<>>]
                  /\ req' = [req EXCEPT ![r].recent = recentMessages(messages, toRemove),
                                        ![r].pc = "readd"]
          ELSE /\ req' = [req EXCEPT ![r].pc = "added"]
               /\ UNCHANGED managers
    /\ UNCHANGED <<pipelineVars, maxMessages, conversations, callVars>>

\* one turn of trimMessages' loop: chatHistory.addMessage(msg)
TrimAdd(r) ==
    /\ req[r].pc = "readd"
    /\ managers' = addMessage(req[r].mgr, Head(req[r].recent))
    /\ req' = [req EXCEPT ![r].recent = Tail(@),
                          ![r].pc = IF Len(req[r].recent) = 1 THEN "added" ELSE "readd"]
    /\ UNCHANGED <<pipelineVars, maxMessages, conversations, callVars>>

\* what the filter branch leaves in the cache
cacheAfterFilterOverwrites(m, filtered) == filtered

cacheAfterFilter(m, filtered) == managers[m].lastSearchResults

cacheAfterSearch(m, searchResults) == structuredResults(searchResults)

\* addExchange has returned: the full-search branch caches its results; the response
ChatRespond(r) ==
    /\ req[r].pc = "added"
    /\ LET m == req[r].mgr
       IN managers' = [managers EXCEPT ![m].lastSearchResults =
              IF req[r].path = "hybrid"
              THEN cacheAfterSearch(m, req[r].searchResults)
              ELSE cacheAfterFilter(m, req[r].searchResults)]
    /\ req' = [req EXCEPT ![r].pc = "done", ![r].status = 200]
    /\ UNCHANGED <<pipelineVars, maxMessages, conversations, callVars>>

hasAlways(id) == TRUE

\* ConversationStore.has
has(id) == conversations[id] # 0

\* what a handler outside POST /chat answers
Answer(status, error, body) ==
    [done |-> TRUE, status |-> status, error |-> error, body |-> body]

conversationsAfterDeleteKept(id) == conversations

\* this.conversations.delete(conversationId)
conversationsAfterDelete(id) == [conversations EXCEPT ![id] = 0]

\* DELETE /chat/:conversationId: conversationStore.delete, 404 when it held no entry
ChatDelete(id) ==
    /\ call' = [fn |-> "delete", conversationId |-> id]
    /\ IF conversations[id] # 0
       THEN /\ conversations' = conversationsAfterDelete(id)
            /\ ret' = Answer(200, "", <<>>)
       ELSE /\ UNCHANGED conversations
            /\ ret' = Answer(404, "Conversation not found", <<>>)
    /\ UNCHANGED <<pipelineVars, maxMessages, managers, req>>

\* POST /chat/history: 404 unless the store has the id, else getOrCreate and the
\* manager's messages
ChatHistory(id) ==
    /\ call' = [fn |-> "history", conversationId |-> id]
    /\ IF has(id)
       THEN /\ conversations' = conversationsAfterGetOrCreate(id)
            /\ managers' = managersAfterGetOrCreate(id)
            /\ ret' = Answer(200, "",
                          managersAfterGetOrCreate(id)[getOrCreateResult(id)].messages)
       ELSE /\ UNCHANGED storeVars
            /\ ret' = Answer(404, "Conversation not found", <<>>)
    /\ UNCHANGED <<pipelineVars, maxMessages, req>>

\* the app.listen callback: initializeRetrievalPipeline succeeds or fails
InitializeRetrievalPipeline ==
    /\ startup = "pending"
    /\ startup' = "done"
    /\ \E ok \in BOOLEAN : retrievalPipeline' = IF ok THEN "ready" ELSE "null"
    /\ UNCHANGED <<rerankEnabled, config, maxMessages, storeVars, req, callVars>>

\* config.hybridSearch: 0.7 / 0.3 unless the environment says otherwise
DefaultWeights == [vectorWeight |-> 7, keywordWeight |-> 3]

\* capacity of the managers of the chat server's store, scaled down from the default
ChatCapacity == 2

Init ==
    /\ retrievalPipeline = "null"
    /\ startup = "pending"
    /\ rerankEnabled \in BOOLEAN
    /\ config = DefaultWeights
    /\ maxMessages = ChatCapacity
    /\ conversations = [id \in ConvIds |-> 0]
    /\ managers = [m \in ManagerIds |-> NoManager]
    /\ req = [r \in Requests |-> NewReq]
    /\ call = NotCalled
    /\ ret = NotReturned

Next ==
    \/ InitializeRetrievalPipeline
    \/ \E r \in Requests : ChatReceive(r)
    \/ \E r \in Requests : ChatFilter(r)
    \/ \E r \in Requests : ChatSearch(r)
    \/ \E r \in Requests : ChatAddAI(r)
    \/ \E r \in Requests : TrimCheck(r)
    \/ \E r \in Requests : TrimAdd(r)
    \/ \E r \in Requests : ChatRespond(r)

Spec == Init /\ [][Next]_vars

(***************************************************************************)
(* The memory manager on its own: addExchange calls made one after another *)
(* on one manager, with the cache operations between them.  MemSpec has no *)
(* clear(); ClearSpec adds it.                                             *)
(***************************************************************************)
\* number of addExchange calls
MaxCalls == 4

TheManager == 1

\* cached result lists a caller stores
CacheLists == {structuredResults(c) : c \in HybridLists}

IdlePipeline ==
    /\ retrievalPipeline = "null"
    /\ startup = "pending"
    /\ rerankEnabled = TRUE
    /\ config = DefaultWeights

MemInit ==
    /\ IdlePipeline
    /\ maxMessages \in 1..MaxCapacity
    /\ conversations = [id \in ConvIds |-> IF id = ClientId THEN TheManager ELSE 0]
    /\ managers = [m \in ManagerIds |->
                      IF m = TheManager THEN [NoManager EXCEPT !.created = TRUE]
                      ELSE NoManager]
    /\ req = [r \in 1..MaxCalls |-> [NewReq EXCEPT !.mgr = TheManager]]
    /\ call = NotCalled
    /\ ret = NotReturned

\* addExchange is called, no other call being in progress
MemAddExchange(r) ==
    /\ req[r].pc = "new"
    /\ \A q \in DOMAIN req : q # r => req[q].pc \in {"new", "done"}
    /\ \A q \in DOMAIN req : q < r => req[q].pc = "done"
    /\ req' = [req EXCEPT ![r].pc = "addAI"]
    /\ addExchangeStart(r, "answer")
    /\ UNCHANGED <<pipelineVars, maxMessages, callVars>>

\* addExchange returns
MemReturn(r) ==
    /\ req[r].pc = "added"
    /\ req' = [req EXCEPT ![r].pc = "done"]
    /\ UNCHANGED <<pipelineVars, maxMessages, storeVars, callVars>>

\* setLastSearchResults(results)
setLastSearchResults(results) ==
    /\ managers' = [managers EXCEPT ![TheManager].lastSearchResults = results]
    /\ UNCHANGED <<pipelineVars, maxMessages, conversations, req, callVars>>

MemSetLastSearchResults ==
    \E results \in CacheLists :
        /\ results # managers[TheManager].lastSearchResults
        /\ setLastSearchResults(results)

\* clearSearchResults()
clearSearchResults ==
    /\ managers[TheManager].lastSearchResults # <<>>
    /\ managers' = [managers EXCEPT ![TheManager].lastSearchResults = <<>>]
    /\ UNCHANGED <<pipelineVars, maxMessages, conversations, req, callVars>>

\* clear(): this.memory.clear()
clear ==
    /\ \A q \in DOMAIN req : req[q].pc \in {"new", "done"}
    /\ managers' = [managers EXCEPT ![TheManager].messages = <<>>]
    /\ UNCHANGED <<pipelineVars, maxMessages, conversations, req, callVars>>

MemNext ==
    \/ \E r \in DOMAIN req : MemAddExchange(r)
    \/ \E r \in DOMAIN req : ChatAddAI(r)
    \/ \E r \in DOMAIN req : TrimCheck(r)
    \/ \E r \in DOMAIN req : TrimAdd(r)
    \/ \E r \in DOMAIN req : MemReturn(r)
    \/ MemSetLastSearchResults
    \/ clearSearchResults

MemSpec == MemInit /\ [][MemNext]_vars

ClearNext ==
    \/ MemNext
    \/ clear

ClearSpec == MemInit /\ [][ClearNext]_vars

(***************************************************************************)
(* rerankAndFilter and filterResults as functions of their arguments and   *)
(* of what the chat model answers.                                         *)
(***************************************************************************)
IdleServer ==
    /\ IdlePipeline
    /\ maxMessages = ChatCapacity
    /\ conversations = [id \in ConvIds |-> 0]
    /\ managers = [m \in ManagerIds |-> NoManager]
    /\ req = [r \in Requests |-> NewReq]

RerankInit ==
    /\ IdleServer
    /\ call \in {[fn |-> "rerankAndFilter", candidates |-> c, llm |-> l] :
                    c \in CandidateLists(MaxDocs, "vector"), l \in RerankResponses(MaxVerdicts)}
    /\ ret = NotReturned

rerankAndFilterCall ==
    /\ call.fn = "rerankAndFilter"
    /\ ~ret.done
    /\ ret' = [done |-> TRUE, out |-> rerankAndFilter(call.candidates, call.llm)]
    /\ UNCHANGED <<pipelineVars, maxMessages, storeVars, req, call>>

RerankNext == rerankAndFilterCall

RerankSpec == RerankInit /\ [][RerankNext]_vars

FilterInit ==
    /\ IdleServer
    /\ call \in {[fn |-> "filterResults", cachedResults |-> structuredResults(c), llm |-> l] :
                    c \in CandidateLists(MaxDocs, "vector"), l \in FilterResponses(MaxVerdicts)}
    /\ ret = NotReturned

filterResultsCall ==
    /\ call.fn = "filterResults"
    /\ ~ret.done
    /\ ret' = [done |-> TRUE, out |-> filterResults(call.cachedResults, call.llm)]
    /\ UNCHANGED <<pipelineVars, maxMessages, storeVars, req, call>>

FilterNext == filterResultsCall

FilterSpec == FilterInit /\ [][FilterNext]_vars

(***************************************************************************)
(* RetrievalPipeline.search over the three engines, and updateWeights      *)
(* while a search is waiting for its engines.                              *)
(***************************************************************************)
\* llmRerankConfig.retrievalTopK, scaled down from the default 10
RetrievalTopK == 2

\* largest topK a caller asks for
MaxTopK == 3

\* weight pairs the hybrid engine is given; it warns about the last and uses it
WeightPairs ==
    {DefaultWeights,
     [vectorWeight |-> 3, keywordWeight |-> 7],
     [vectorWeight |-> 10, keywordWeight |-> 10]}

\* what the vector store returns: best first
HitLists ==
    {h \in SeqsNoDup(VectorHits, MaxDocs) :
        \A i, j \in 1..Len(h) : i < j => h[i].score >= h[j].score}

\* answers of the collection in which two documents score the same, or one scores 0
TiedDocLists ==
    {d \in SeqsNoDup(KeywordDocs \cup TiedDocs, MaxDocs) :
        \/ \E i, j \in 1..Len(d) :
              i < j /\ totalScore2(d[i], [groups |-> 0]) = totalScore2(d[j], [groups |-> 0])
        \/ Len(d) = 1 /\ totalScore2(d[1], [groups |-> 0]) = 0}

\* what the collection returns, in its own order
DocLists == SeqsNoDup(KeywordDocs, MaxDocs) \cup TiedDocLists

Verdict(name, score, matchesCriteria) ==
    [name |-> name, relevanceScore |-> score, matchesCriteria |-> matchesCriteria,
     reasoning |-> "because", extractedInfo |-> "info", wellTyped |-> TRUE]

\* answers of the chat model to the re-rank prompt of a search
SearchRerankResponses ==
    {LlmThrows,
     LlmText(<<TokProse>>),
     LlmText(ResponseText("raw",
         RerankValue(<<Verdict("A", Tenths(2), TRUE), Verdict("C", Tenths(9), TRUE)>>))),
     LlmText(ResponseText("fencedJson",
         RerankValue(<<Verdict("A", Tenths(2), TRUE), Verdict("A", Tenths(9), TRUE),
                       Verdict("A", Tenths(5), TRUE)>>))),
     LlmText(ResponseText("fenced", RerankValue(<<Verdict("B", Tenths(9), FALSE)>>)))}

hybridEnginesOkEither(vectorOk, keywordOk) == vectorOk \/ keywordOk

\* Promise.all of the two engine searches resolves
hybridEnginesOk(vectorOk, keywordOk) == vectorOk /\ keywordOk

\* the switch on searchType: the engine's result, or the error it throws
stage1(query, searchType, store, retrievalCount, weights) ==
    CASE searchType = "keyword" ->
            IF store.keywordOk
            THEN [ok |-> TRUE, error |-> "",
                  results |-> keywordSearch(query, store.documents, retrievalCount)]
            ELSE [ok |-> FALSE, error |-> "Keyword search failed", results |-> <<>>]
      [] searchType = "vector" ->
            IF store.vectorOk
            THEN [ok |-> TRUE, error |-> "",
                  results |-> vectorSearch(store.hits, retrievalCount)]
            ELSE [ok |-> FALSE, error |-> "Vector search failed", results |-> <<>>]
      [] searchType = "hybrid" ->
            IF hybridEnginesOk(store.vectorOk, store.keywordOk)
            THEN [ok |-> TRUE, error |-> "",
                  results |-> hybridSearch(query,
                      IF store.vectorOk THEN store.hits ELSE <<>>,
                      IF store.keywordOk THEN store.documents ELSE <<>>,
                      retrievalCount, weights)]
            ELSE [ok |-> FALSE, error |-> "Hybrid search failed", results |-> <<>>]

limitTopKNone(results, topK) == results

\* results.slice(0, topK)
limitTopK(results, topK) == SliceTo(results, topK)

retrievalCountAlwaysTopK(topK) == topK

\* this.llmRerankConfig.enabled ? this.llmRerankConfig.retrievalTopK : topK
retrievalCountOf(topK) == IF rerankEnabled THEN RetrievalTopK ELSE topK

engineCallsRetried(searchType, store) ==
    [NoCalls EXCEPT
        !.keyword = IF searchType \in {"keyword", "hybrid"}
                    THEN (IF store.keywordOk THEN 1 ELSE 2) ELSE 0,
        !.embedding = IF searchType \in {"vector", "hybrid"}
                      THEN (IF store.vectorOk THEN 1 ELSE 2) ELSE 0,
        !.vector = IF searchType \in {"vector", "hybrid"}
                   THEN (IF store.vectorOk THEN 1 ELSE 2) ELSE 0]

\* the store and embedding operations the selected engine starts: collection.find of
\* the keyword engine, searchWithScores (embedding, then the vector query) of the
\* vector engine, both under Promise.all for hybrid
engineCalls(searchType, store) ==
    [NoCalls EXCEPT
        !.keyword = IF searchType \in {"keyword", "hybrid"} THEN 1 ELSE 0,
        !.embedding = IF searchType \in {"vector", "hybrid"} THEN 1 ELSE 0,
        !.vector = IF searchType \in {"vector", "hybrid"} THEN 1 ELSE 0]

\* RetrievalPipeline.search; weights is the hybrid engine's config when it merges.
\* Next to the outcome (ok, error, results) the record keeps what the call did: the
\* count it asked the engine for, the external operations it started, whether it
\* called rerankAndFilter
search(query, searchType, topK, store, llm, weights) ==
    LET retrievalCount == retrievalCountOf(topK)
        first == stage1(query, searchType, store, retrievalCount, weights)
        calls == engineCalls(searchType, store)
    IN IF ~first.ok
       THEN [ok |-> FALSE, error |-> first.error, results |-> <<>>,
             retrievalCount |-> retrievalCount, calls |-> calls, reranked |-> FALSE]
       ELSE IF rerankEnabled /\ Len(first.results) > 0
       THEN LET rerankedData == rerankAndFilter(first.results, llm)
            IN [ok |-> TRUE, error |-> "",
                results |-> limitTopK(rerankedData.results, topK),
                retrievalCount |-> retrievalCount,
                calls |-> [calls EXCEPT !.chat = rerankedData.llmCalls],
                reranked |-> TRUE]
       ELSE [ok |-> TRUE, error |-> "", results |-> limitTopK(first.results, topK),
             retrievalCount |-> retrievalCount, calls |-> calls, reranked |-> FALSE]

\* the calls of search the model makes
SearchCalls ==
    {[fn |-> "search", query |-> q, searchType |-> t, topK |-> k, llm |-> l,
      store |-> [hits |-> h, documents |-> d, vectorOk |-> vo, keywordOk |-> ko]] :
        q \in Queries, t \in {"keyword", "vector", "hybrid"}, k \in 1..MaxTopK,
        l \in SearchRerankResponses, h \in HitLists, d \in DocLists,
        vo \in BOOLEAN, ko \in BOOLEAN}

\* a call does not vary in what its search type never reads
SearchCallDistinct(c) ==
    /\ c.searchType = "keyword" => c.store.hits = <<>> /\ c.store.vectorOk
    /\ c.searchType = "vector" =>
          c.store.documents = <<>> /\ c.store.keywordOk /\ c.query.groups = 0
    /\ c.store.documents = <<>> => c.query.groups = 0

\* the pipeline's re-ranker called on a candidate list, an empty one included
RerankerCalls ==
    {[fn |-> "rerankAndFilter", candidates |-> c, llm |-> l] :
        c \in CandidateLists(MaxDocs, "hybrid"), l \in SearchRerankResponses}

PipeInit ==
    /\ retrievalPipeline = "ready"
    /\ startup = "done"
    /\ rerankEnabled \in BOOLEAN
    /\ config \in WeightPairs
    /\ maxMessages = ChatCapacity
    /\ conversations = [id \in ConvIds |-> 0]
    /\ managers = [m \in ManagerIds |-> NoManager]
    /\ req = [r \in Requests |-> NewReq]
    /\ \/ call \in {c \in SearchCalls :
                       /\ SearchCallDistinct(c)
                       /\ ~rerankEnabled => c.llm = LlmThrows}
       \/ /\ rerankEnabled /\ config = DefaultWeights
          /\ call \in RerankerCalls
    /\ ret = NotReturned

\* search is called: the engine searches are sent off
SearchDispatch ==
    /\ call.fn = "search"
    /\ ret = NotReturned
    /\ ret' = [done |-> FALSE, dispatched |-> config]
    /\ UNCHANGED <<pipelineVars, maxMessages, storeVars, req, call>>

\* updateHybridWeights -> HybridSearchEngine.updateWeights, during a search
updateWeights(vectorWeight, keywordWeight) ==
    /\ ret # NotReturned /\ ~ret.done
    /\ config # [vectorWeight |-> vectorWeight, keywordWeight |-> keywordWeight]
    /\ config' = [vectorWeight |-> vectorWeight, keywordWeight |-> keywordWeight]
    /\ UNCHANGED <<retrievalPipeline, startup, rerankEnabled, maxMessages, storeVars,
                   req, callVars>>

\* the engines have answered: merge with this.config as it is now, re-rank, return
SearchComplete ==
    /\ call.fn = "search"
    /\ ret # NotReturned /\ ~ret.done
    /\ ret' = [done |-> TRUE, dispatched |-> ret.dispatched,
               out |-> search(call.query, call.searchType, call.topK, call.store, call.llm,
                             config)]
    /\ UNCHANGED <<pipelineVars, maxMessages, storeVars, req, call>>

PipeNext ==
    \/ SearchDispatch
    \/ \E w \in WeightPairs : updateWeights(w.vectorWeight, w.keywordWeight)
    \/ SearchComplete
    \/ rerankAndFilterCall

PipeSpec == PipeInit /\ [][PipeNext]_vars

\* mergeResults on its own: the two engines' lists and the weights are drawn
MergeInit ==
    /\ retrievalPipeline = "ready"
    /\ startup = "done"
    /\ rerankEnabled = FALSE
    /\ config \in WeightPairs
    /\ maxMessages = ChatCapacity
    /\ conversations = [id \in ConvIds |-> 0]
    /\ managers = [m \in ManagerIds |-> NoManager]
    /\ req = [r \in Requests |-> NewReq]
    /\ call \in {[fn |-> "mergeResults",
                  vectorResults |-> vectorSearch(h, MaxDocs),
                  keywordResults |-> keywordSearch(q, d, MaxDocs)] :
                    h \in HitLists, d \in DocLists, q \in Queries}
    /\ ret = NotReturned

mergeResultsCall ==
    /\ call.fn = "mergeResults"
    /\ ~ret.done
    /\ ret' = [done |-> TRUE,
               out |-> mergeResults(call.vectorResults, call.keywordResults, config)]
    /\ UNCHANGED <<pipelineVars, maxMessages, storeVars, req, call>>

MergeNext == mergeResultsCall

MergeSpec == MergeInit /\ [][MergeNext]_vars

(***************************************************************************)
(* VectorSearchEngine.search on its own: the store's answer and topK are   *)
(* drawn.                                                                  *)
(***************************************************************************)
Hundredths(n) == n * (ScoreOne \div 100)

\* raw scores of the store besides VectorHits: two inside the unit interval, one
\* above it
ScoredHits ==
    { [name |-> "A", email |-> "a1@x", phoneNumber |-> "111", content |-> "resume a1",
       score |-> Hundredths(92)],
      [name |-> "B", email |-> "b@x", phoneNumber |-> "222", content |-> "resume b",
       score |-> Hundredths(55)],
      [name |-> "C", email |-> "c@x", phoneNumber |-> "444", content |-> "resume c",
       score |-> Hundredths(120)] }

\* what searchWithScores returns before its limit: best first
StoreHitLists ==
    {h \in SeqsNoDup(VectorHits \cup ScoredHits, MaxDocs) :
        \A i, j \in 1..Len(h) : i < j => h[i].score >= h[j].score}

VectorInit ==
    /\ retrievalPipeline = "ready"
    /\ startup = "done"
    /\ rerankEnabled = FALSE
    /\ config = DefaultWeights
    /\ maxMessages = ChatCapacity
    /\ conversations = [id \in ConvIds |-> 0]
    /\ managers = [m \in ManagerIds |-> NoManager]
    /\ req = [r \in Requests |-> NewReq]
    /\ call \in {[fn |-> "vectorSearch", hits |-> h, topK |-> k] :
                    h \in StoreHitLists, k \in 1..MaxTopK}
    /\ ret = NotReturned

vectorSearchCall ==
    /\ call.fn = "vectorSearch"
    /\ ~ret.done
    /\ ret' = [done |-> TRUE, out |-> vectorSearch(call.hits, call.topK)]
    /\ UNCHANGED <<pipelineVars, maxMessages, storeVars, req, call>>

VectorSpec == VectorInit /\ [][vectorSearchCall]_vars

(***************************************************************************)
(* The server's endpoints together: POST /chat as in Spec, with            *)
(* POST /search/resumes, POST /chat/history and DELETE /chat/:id.          *)
(***************************************************************************)
\* search requests the model sends: a keyword search that finds one document, one
\* whose store fails, a hybrid search over an empty store
ApiSearchCalls ==
    {[fn |-> "searchResumes", query |-> [groups |-> 0], searchType |-> t, topK |-> 1,
      llm |-> LlmThrows,
      store |-> [hits |-> <<>>, documents |-> d, vectorOk |-> TRUE, keywordOk |-> ko]] :
        t \in {"keyword"}, d \in {dl \in DocLists : Len(dl) = 1 /\ dl[1].name = "B"},
        ko \in BOOLEAN}
    \cup {[fn |-> "searchResumes", query |-> [groups |-> 0], searchType |-> "hybrid",
           topK |-> 1, llm |-> LlmThrows,
           store |-> [hits |-> <<>>, documents |-> <<>>, vectorOk |-> TRUE,
                      keywordOk |-> TRUE]]}

\* POST /search/resumes: the pipeline check, then retrievalPipeline.search
SearchResumes ==
    /\ \E c \in ApiSearchCalls :
         /\ call' = c
         /\ IF pipelineMissing(retrievalPipeline)
            THEN ret' = Answer(400, NotInitialized, <<>>)
            ELSE LET out == search(c.query, c.searchType, c.topK, c.store, c.llm, config)
                 IN ret' = Answer(IF out.ok THEN 200 ELSE 400, out.error, out.results)
    /\ UNCHANGED <<pipelineVars, maxMessages, storeVars, req>>

\* chat requests here all send the same message and no topK
ApiInit == Init /\ rerankEnabled = FALSE

ApiNext ==
    \/ InitializeRetrievalPipeline
    \/ \E r \in Requests, supplied \in SuppliedIds :
          ChatReceiveOf(r, supplied, MsgFindQA, ChatTopK)
    \/ \E r \in Requests : ChatFilter(r)
    \/ \E r \in Requests : ChatSearch(r)
    \/ \E r \in Requests : ChatAddAI(r)
    \/ \E r \in Requests : TrimCheck(r)
    \/ \E r \in Requests : TrimAdd(r)
    \/ \E r \in Requests : ChatRespond(r)
    \/ SearchResumes
    \/ \E id \in ConvIds : ChatHistory(id)
    \/ \E id \in ConvIds : ChatDelete(id)

ApiSpec == ApiInit /\ [][ApiNext]_vars

(***************************************************************************)
(* Properties.                                                             *)
(***************************************************************************)
LastK(s, k) == SubSeq(s, Len(s) - k + 1, Len(s))

Min(a, b) == IF a <= b THEN a ELSE b

\* ---- rerankAndFilter (RerankSpec) ----
ParsedFormats == {"raw", "fenced", "fencedJson", "proseFenced"}

\* the JSON value an answer carries, if any
JsonValueOf(text) ==
    LET ks == {k \in 1..Len(text) : text[k].t = "json"}
    IN IF ks = {} THEN NoValue ELSE text[CHOOSE k \in ks : TRUE].v

\* the answer is a JSON value, bare or in a fenced block, that the response schema accepts
RerankWellFormed(llm) ==
    /\ ~llm.throws
    /\ LET v == JsonValueOf(llm.text)
       IN /\ \E f \in ParsedFormats : llm.text = ResponseText(f, v)
          /\ v.kind = "rerank"
          /\ v.matchesOk /\ v.summaryOk
          /\ \A i \in 1..Len(v.matches) : v.matches[i] \in GoodMatches

RerankReturned == call.fn = "rerankAndFilter" /\ ret.done

\* C8: when the model call of rerankAndFilter throws, or its answer cannot be parsed
\* or fails the schema, rerankAndFilter returns exactly the input candidates, in the
\* input order with scores and match types unchanged, and a summary reporting the failure.
C8_RerankFailOpen ==
    (RerankReturned /\ call.candidates # <<>> /\ ~RerankWellFormed(call.llm)) =>
        /\ ret.out.results = call.candidates
        /\ ret.out.summary = IF call.llm.throws THEN "Error during LLM analysis"
                             ELSE "Failed to parse LLM response"

\* a two-candidate call whose answer parses as JSON but fails the schema has returned
C8_Witness ==
    /\ RerankReturned
    /\ Len(call.candidates) = 2
    /\ ~call.llm.throws
    /\ \E v \in RerankValues(MaxVerdicts) :
          /\ call.llm.text = ResponseText("fencedJson", v)
          /\ \E i \in 1..Len(v.matches) : v.matches[i].relevanceScore > ScoreOne
    /\ ret.out.results = call.candidates
    /\ ret.out.summary = "Failed to parse LLM response"

SameCandidate(item, c) ==
    /\ item.name = c.name
    /\ item.email = c.email
    /\ item.phoneNumber = c.phoneNumber
    /\ item.content = c.content

\* the verdicts of a well-formed answer
VerdictsOf(llm) == JsonValueOf(llm.text).matches

CandidateNames == {call.candidates[i].name : i \in 1..Len(call.candidates)}

\* C10: every item rerankAndFilter returns is one of the input candidates (name, email,
\* phone and content are those of an input candidate), whatever names the model
\* returns; a verdict naming no input candidate contributes nothing to the output.
C10_ResultsAreCandidates ==
    RerankReturned =>
        /\ \A i \in 1..Len(ret.out.results) :
              \E j \in 1..Len(call.candidates) :
                  SameCandidate(ret.out.results[i], call.candidates[j])
        /\ (call.candidates # <<>> /\ RerankWellFormed(call.llm)) =>
              LET verdicts == VerdictsOf(call.llm)
              IN Len(ret.out.results) =
                     Cardinality({k \in 1..Len(verdicts) :
                                     /\ verdicts[k].matchesCriteria
                                     /\ verdicts[k].name \in CandidateNames})

\* a well-formed answer with an accepting verdict for a name no candidate has, next
\* to an accepting verdict for a candidate, has been processed
C10_Witness ==
    /\ RerankReturned
    /\ call.candidates # <<>>
    /\ RerankWellFormed(call.llm)
    /\ \E k \in 1..Len(VerdictsOf(call.llm)) :
          /\ VerdictsOf(call.llm)[k].name \notin CandidateNames
          /\ VerdictsOf(call.llm)[k].matchesCriteria
    /\ Len(ret.out.results) = 1

\* ---- filterResults (FilterSpec) ----
FilterWellFormed(llm) ==
    /\ ~llm.throws
    /\ LET v == JsonValueOf(llm.text)
       IN /\ \E f \in ParsedFormats : llm.text = ResponseText(f, v)
          /\ v.kind = "filter"
          /\ v.filteredResultsOk /\ v.summaryOk
          /\ \A i \in 1..Len(v.filteredResults) : v.filteredResults[i] \in GoodFiltered

FilterReturned == call.fn = "filterResults" /\ ret.done

\* C9: when the model call of filterResults throws, or its answer cannot be parsed or
\* fails the schema, filterResults returns all cached results in their original order
\* and a summary explaining the fallback.
C9_FilterFailOpen ==
    (FilterReturned /\ call.cachedResults # <<>> /\ ~FilterWellFormed(call.llm)) =>
        /\ ret.out.filtered = call.cachedResults
        /\ ret.out.summary =
              IF call.llm.throws THEN "Error during filtering"
              ELSE "Failed to parse filter response. Returning all cached results."

\* a call on two cached results whose answer is an unterminated fenced block has returned
C9_Witness ==
    /\ FilterReturned
    /\ Len(call.cachedResults) = 2
    /\ ~call.llm.throws
    /\ \E v \in FilterValues(MaxVerdicts) : call.llm.text = ResponseText("openFence", v)
    /\ ret.out.filtered = call.cachedResults
    /\ ret.out.summary = "Failed to parse filter response. Returning all cached results."

\* ---- the memory manager (MemSpec, ClearSpec) ----
MemQuiescent == \A q \in DOMAIN req : req[q].pc \in {"new", "done"}

CallsDone == Cardinality({q \in DOMAIN req : req[q].pc = "done"})

\* u1, a1, ..., un, an
RECURSIVE Appended(_)
Appended(n) ==
    IF n = 0 THEN <<>>
    ELSE Appended(n - 1) \o <<[role |-> "user", req |-> n], [role |-> "assistant", req |-> n]>>

\* C7: after n addExchange calls made one after another on a manager of capacity N,
\* getMessages is, oldest first, exactly the last min(N, 2n) messages of
\* u1,a1,...,un,an; so on a full memory with N = 4 the two oldest messages go and
\* the new pair takes the last two places.
C7_SequentialWindow ==
    MemQuiescent =>
        managers[TheManager].messages =
            LastK(Appended(CallsDone), Min(maxMessages, 2 * CallsDone))

\* capacity 4, three exchanges made, and the fourth has evicted u2, a2
C7_Witness ==
    /\ MemQuiescent
    /\ maxMessages = 4
    /\ CallsDone = 4
    /\ managers[TheManager].messages =
          <<[role |-> "user", req |-> 3], [role |-> "assistant", req |-> 3],
            [role |-> "user", req |-> 4], [role |-> "assistant", req |-> 4]>>

\* C6: a step of clear() leaves the manager with no messages and no cached search
\* results (hasSearchResults() false, getLastSearchResults() empty).
C6_ClearEmptiesBoth ==
    [][clear => /\ managers'[TheManager].messages = <<>>
                /\ managers'[TheManager].lastSearchResults = <<>>]_vars

\* ---- the chat server (Spec) ----
\* C1: in every reachable state, between the steps of an addExchange call and with
\* addExchange calls of concurrent requests included, a manager holds at most
\* maxMessages messages.
C1_MessageBound ==
    \A m \in ManagerIds : Len(managers[m].messages) <= maxMessages

AllAnswered == \A r \in Requests : req[r].pc = "done"

\* the requests whose exchange went into manager m
ExchangesOn(m) == {r \in Requests : req[r].mgr = m /\ req[r].status = 200}

RECURSIVE ExchangesIn(_)
ExchangesIn(order) ==
    IF order = <<>> THEN <<>>
    ELSE <<[role |-> "user", req |-> Head(order)], [role |-> "assistant", req |-> Head(order)]>>
         \o ExchangesIn(Tail(order))

\* the histories that running the exchanges on m one at a time, in some order, leaves
SerialHistories(m) ==
    {LastK(ExchangesIn(order), Min(maxMessages, 2 * Len(order))) :
        order \in {o \in SeqsNoDup(ExchangesOn(m), MaxReq) :
                      Len(o) = Cardinality(ExchangesOn(m))}}

\* C2: once the chat requests on a conversation have all been answered, its history
\* is what their exchanges leave when made one at a time: every kept user message is
\* directly followed by its own assistant message, nothing lost or duplicated by a
\* concurrent trim.
C2_Serialized ==
    AllAnswered =>
        \A m \in ManagerIds : managers[m].messages \in SerialHistories(m)

\* request r is received in this step and the pipeline is there
Received(r) == req[r].pc = "new" /\ req'[r].pc \in {"filter", "search"}

\* request r is answered with 200 in this step
Answered(r) == req[r].pc = "added" /\ req'[r].pc = "done"

\* the cache of the conversation a request with this conversationId field addresses
CachedFor(r, supplied) ==
    LET id == IF supplied = NoId THEN r ELSE supplied
    IN IF conversations[id] = 0 THEN <<>>
       ELSE managers[conversations[id]].lastSearchResults

\* what the handler caches of one search result
CachedFields(x) ==
    [name |-> x.name, email |-> x.email, phoneNumber |-> x.phoneNumber, score |-> x.score,
     matchType |-> x.matchType, extractedInfo |-> x.extractedInfo,
     llmReasoning |-> x.llmReasoning]

C4_FilterKeepsCache ==
    [][\A m \in ManagerIds :
          managers'[m].lastSearchResults # managers[m].lastSearchResults =>
              \E r \in Requests :
                  /\ Answered(r) /\ req[r].mgr = m /\ req[r].path = "hybrid"
                  /\ managers'[m].lastSearchResults =
                        [i \in 1..Len(req[r].searchResults) |->
                            CachedFields(req[r].searchResults[i])]]_vars

\* a filter request that kept fewer results than were cached has been answered, and
\* the cache still holds what it was given to filter
C4_Witness ==
    \E r \in Requests :
        /\ req[r].pc = "done" /\ req[r].path = "filter" /\ req[r].status = 200
        /\ req[r].cachedResults # <<>>
        /\ Len(req[r].searchResults) < Len(req[r].cachedResults)
        /\ managers[req[r].mgr].lastSearchResults = req[r].cachedResults

\* C5: a filter-path request issues no keyword query, no embedding call, no vector
\* query and no write to the document store; its only external call is one chat-model
\* completion.
C5_FilterCallsOnlyModel ==
    \A r \in Requests :
        req[r].path = "filter" =>
            /\ req[r].calls.keyword = 0
            /\ req[r].calls.embedding = 0
            /\ req[r].calls.vector = 0
            /\ req[r].calls.storeWrite = 0
            /\ req[r].calls.chat = IF req[r].pc = "filter" THEN 0 ELSE 1

\* a filter-path request has been answered after its one completion
C5_Witness ==
    \E r \in Requests :
        /\ req[r].path = "filter" /\ req[r].pc = "done" /\ req[r].status = 200
        /\ req[r].calls.chat = 1

\* ---- rerankAndFilter with a well-formed answer (RerankSpec) ----
RerankAnswered == RerankReturned /\ call.candidates # <<>> /\ RerankWellFormed(call.llm)

\* some accepting verdict carries this name
Accepted(name) ==
    \E k \in 1..Len(VerdictsOf(call.llm)) :
        VerdictsOf(call.llm)[k].name = name /\ VerdictsOf(call.llm)[k].matchesCriteria

\* the output holds candidate j
Returned(j) ==
    \E i \in 1..Len(ret.out.results) : SameCandidate(ret.out.results[i], call.candidates[j])

\* the first candidate that has the name of candidate j
FirstOfName(j) ==
    \A h \in 1..Len(call.candidates) : call.candidates[h].name = call.candidates[j].name => j <= h

\* C11 as stated: with a well-formed answer, a candidate is in the output if and only
\* if a verdict with matchesCriteria = true names it, each returned item has that
\* verdict's relevanceScore as score and matchType llm-reranked.
C11_ReturnedIffAccepted ==
    RerankAnswered =>
        /\ \A j \in 1..Len(call.candidates) :
              Returned(j) <=> Accepted(call.candidates[j].name)
        /\ \A i \in 1..Len(ret.out.results) :
              /\ ret.out.results[i].matchType = "llm-reranked"
              /\ \E k \in 1..Len(VerdictsOf(call.llm)) :
                    /\ VerdictsOf(call.llm)[k].name = ret.out.results[i].name
                    /\ VerdictsOf(call.llm)[k].matchesCriteria
                    /\ VerdictsOf(call.llm)[k].relevanceScore = ret.out.results[i].score

\* what holds of the code instead: candidates are found by name, so it is the first
\* candidate of a name that is in the output if and only if an accepting verdict
\* carries the name; a later candidate of the same name is never returned. Each
\* returned item has the relevanceScore of an accepting verdict of its name and
\* matchType llm-reranked, and a name with no accepting verdict is never returned.
FirstOfNameIffAccepted ==
    RerankAnswered =>
        /\ \A j \in 1..Len(call.candidates) :
              Returned(j) <=> (FirstOfName(j) /\ Accepted(call.candidates[j].name))
        /\ \A i \in 1..Len(ret.out.results) :
              /\ ret.out.results[i].matchType = "llm-reranked"
              /\ \E k \in 1..Len(VerdictsOf(call.llm)) :
                    /\ VerdictsOf(call.llm)[k].name = ret.out.results[i].name
                    /\ VerdictsOf(call.llm)[k].matchesCriteria
                    /\ VerdictsOf(call.llm)[k].relevanceScore = ret.out.results[i].score

\* two candidates share a name, a verdict accepts the name, and the output holds the
\* first of them with the verdict's score and not the second
C11_Witness ==
    /\ RerankAnswered
    /\ Len(call.candidates) = 2
    /\ call.candidates[1].name = call.candidates[2].name
    /\ Accepted(call.candidates[1].name)
    /\ Returned(1) /\ ~Returned(2)
    /\ ret.out.results[1].score # call.candidates[1].score

\* ---- filterResults with a well-formed answer (FilterSpec) ----
FilterAnswered == FilterReturned /\ call.cachedResults # <<>> /\ FilterWellFormed(call.llm)

FilterVerdictsOf(llm) == JsonValueOf(llm.text).filteredResults

\* the elements of s at the positions in idx, in the order of s
RECURSIVE Pick(_, _)
Pick(s, idx) ==
    IF s = <<>> THEN <<>>
    ELSE Pick(SubSeq(s, 1, Len(s) - 1), idx)
         \o (IF Len(s) \in idx THEN <<s[Len(s)]>> ELSE <<>>)

\* some verdict of this name has matches = true
SomeVerdictMatches(name) ==
    \E k \in 1..Len(FilterVerdictsOf(call.llm)) :
        FilterVerdictsOf(call.llm)[k].name = name /\ FilterVerdictsOf(call.llm)[k].matches

\* the first verdict of this name has matches = true
FirstVerdictMatches(name) ==
    \E k \in 1..Len(FilterVerdictsOf(call.llm)) :
        /\ FilterVerdictsOf(call.llm)[k].name = name
        /\ FilterVerdictsOf(call.llm)[k].matches
        /\ \A h \in 1..(k - 1) : FilterVerdictsOf(call.llm)[h].name # name

FilteredIsSubList ==
    \E idx \in SUBSET (1..Len(call.cachedResults)) :
        ret.out.filtered = Pick(call.cachedResults, idx)

\* C12 as stated: with a well-formed answer filterResults returns exactly the cached
\* results for which the answer holds a verdict of the same name with matches = true,
\* in cache order; the returned list is always a sub-list of the cached results.
C12_KeptIffSomeVerdict ==
    FilterReturned =>
        /\ FilteredIsSubList
        /\ FilterAnswered =>
              ret.out.filtered =
                  Pick(call.cachedResults,
                       {j \in 1..Len(call.cachedResults) :
                           SomeVerdictMatches(call.cachedResults[j].name)})

\* C12 amended: with a well-formed answer filterResults returns exactly the cached
\* results whose FIRST verdict of the same name has matches = true, in cache order;
\* the returned list is always a sub-list of the cached results.
C12_KeptIffFirstVerdict ==
    FilterReturned =>
        /\ FilteredIsSubList
        /\ FilterAnswered =>
              ret.out.filtered =
                  Pick(call.cachedResults,
                       {j \in 1..Len(call.cachedResults) :
                           FirstVerdictMatches(call.cachedResults[j].name)})

\* the answer rejects and then accepts the name of a cached result, next to an
\* accepted one: the first verdict decides and the result is left out
C12_Witness ==
    /\ FilterAnswered
    /\ Len(call.cachedResults) = 2
    /\ \E j \in 1..2 :
          /\ SomeVerdictMatches(call.cachedResults[j].name)
          /\ ~FirstVerdictMatches(call.cachedResults[j].name)
          /\ \A i \in 1..Len(ret.out.filtered) :
                ret.out.filtered[i].name # call.cachedResults[j].name

\* ---- RetrievalPipeline.search (PipeSpec) and mergeResults (MergeSpec) ----
SearchReturned == call.fn = "search" /\ ret.done /\ ret.out.ok

\* C13: every score in a list returned by RetrievalPipeline.search lies in [0,1], for
\* each search type, with re-ranking on or off, for every store content, several
\* documents sharing a name included; checked here for weights that sum to 1.
C13_ScoresInUnitInterval ==
    (SearchReturned /\ config.vectorWeight + config.keywordWeight = WeightOne) =>
        \A i \in 1..Len(ret.out.results) :
            ret.out.results[i].score >= 0 /\ ret.out.results[i].score <= ScoreOne

\* a hybrid search with weights 0.7 / 0.3 has returned a score above 1
C13_Witness ==
    /\ SearchReturned
    /\ call.searchType = "hybrid"
    /\ ret.dispatched = DefaultWeights /\ config = DefaultWeights
    /\ \E i \in 1..Len(ret.out.results) : ret.out.results[i].score > ScoreOne

MergeReturned == call.fn = "mergeResults" /\ ret.done

\* the scores a list holds for a name; 0 alone when the name is absent
ScoresOf(results, name) ==
    LET found == {results[i].score : i \in {k \in 1..Len(results) : results[k].name = name}}
    IN IF found = {} THEN {0} ELSE found

\* C14: the score of each merged entry is w_v times the vector score of the document
\* of that name (0 if absent from the vector results) plus w_k times its keyword
\* score (0 if absent from the keyword results).
C14_MergedScore ==
    MergeReturned =>
        \A i \in 1..Len(ret.out) :
            \E v \in ScoresOf(call.vectorResults, ret.out[i].name),
               k \in ScoresOf(call.keywordResults, ret.out[i].name) :
                ret.out[i].score * WeightOne = v * config.vectorWeight + k * config.keywordWeight

\* w_v = 0.7, w_k = 0.3, vector [A 0.9, C 0.7], keyword [A 0.5, B 0.4]: the merge is
\* A 0.78, C 0.49, B 0.12
C14_Witness ==
    /\ MergeReturned
    /\ config = DefaultWeights
    /\ [i \in 1..Len(call.vectorResults) |->
           <<call.vectorResults[i].name, call.vectorResults[i].score>>]
          = << <<"A", Tenths(9)>>, <<"C", Tenths(7)>> >>
    /\ [i \in 1..Len(call.keywordResults) |->
           <<call.keywordResults[i].name, call.keywordResults[i].score>>]
          = << <<"A", Tenths(5)>>, <<"B", Tenths(4)>> >>
    /\ [i \in 1..Len(ret.out) |-> <<ret.out[i].name, ret.out[i].score * 100>>]
          = << <<"A", 78 * ScoreOne>>, <<"C", 49 * ScoreOne>>, <<"B", 12 * ScoreOne>> >>

\* C15: every list RetrievalPipeline.search returns has at most topK items, for each
\* search type, with re-ranking on or off, whether the model call succeeds, fails or
\* returns repeated verdicts.
C15_AtMostTopK ==
    SearchReturned => Len(ret.out.results) <= call.topK

\* re-ranking is on, the answer accepts one name three times, and the list was cut to
\* topK = 2
C15_Witness ==
    /\ SearchReturned
    /\ rerankEnabled
    /\ call.topK = 2
    /\ ~call.llm.throws
    /\ JsonValueOf(call.llm.text) # NoValue
    /\ Len(VerdictsOf(call.llm)) = 3
    /\ Len(ret.out.results) = 2
    /\ ret.out.results[1].matchType = "llm-reranked"

C17_WeightsOfDispatch ==
    (call.fn = "search" /\ ret.done /\ call.searchType = "hybrid") =>
        ret.out = search(call.query, call.searchType, call.topK, call.store, call.llm,
                         ret.dispatched)

\* C18: if the keyword search or the vector search of a hybrid search fails, the search
\* fails with the hybrid engine's error and returns no result of the surviving engine.
C18_HybridFailsWhole ==
    (call.fn = "search" /\ ret.done /\ call.searchType = "hybrid"
        /\ ~(call.store.vectorOk /\ call.store.keywordOk)) =>
        /\ ~ret.out.ok
        /\ ret.out.error = "Hybrid search failed"
        /\ ret.out.results = <<>>

\* the keyword search failed while the vector store had hits, and the search failed
C18_Witness ==
    /\ call.fn = "search" /\ ret.done /\ call.searchType = "hybrid"
    /\ call.store.vectorOk /\ ~call.store.keywordOk
    /\ call.store.hits # <<>>
    /\ ~ret.out.ok

\* ---- POST /chat: failures (Spec) ----
\* the request passed validation and the pipeline check: a manager was resolved
Validated(r) == req[r].path # "none"

\* C19: every chat request that passes validation ends with its exchange appended to
\* the conversation's memory: a request reaches its end only from the return of
\* addExchange, on the filter path and on the full-search path, also when the store,
\* the embedding call or a model call fails.
C19_ExchangeAlwaysAppended ==
    [][\A r \in Requests :
          (Validated(r) /\ req[r].pc # "done" /\ req'[r].pc = "done") =>
              req[r].pc = "added"]_vars

\* the summaries the two fallbacks of a thrown model call write
FallbackSummaries == {filterErrorFallback(<<>>).summary, rerankErrorFallback(<<>>).summary}

\* C20: when the model call inside rerankAndFilter or filterResults throws, the chat
\* request does not answer with an error: it answers 200 with a text explaining the
\* fallback and with the results it has, all cached results on the filter path, the
\* unfiltered candidates on the full-search path (the later chain.invoke succeeding).
C20_FallbackAnswered ==
    \A r \in Requests :
        (req[r].pc = "done" /\ req[r].llmThrew /\ req[r].response # "chat model failed") =>
            /\ req[r].status = 200
            /\ req[r].searchResults = req[r].candidates
            /\ req[r].response \in FallbackSummaries

\* a filter request whose model call threw has answered 200 with the fallback summary
\* and every cached result
C20_Witness ==
    \E r \in Requests :
        /\ req[r].pc = "done" /\ req[r].llmThrew /\ req[r].path = "filter"
        /\ req[r].status = 200
        /\ req[r].cachedResults # <<>>
        /\ req[r].searchResults = req[r].cachedResults
        /\ req[r].response = filterErrorFallback(<<>>).summary

\* ---- RetrievalPipeline.search: stages, counts and external calls (PipeSpec) ----
SearchDone == call.fn = "search" /\ ret.done

\* the answer is a JSON value, bare or in a fenced block, with a matches array and a
\* summary, whose verdicts all have the schema's types and a score in [0,1]
RerankAnswerValid(llm) ==
    /\ ~llm.throws
    /\ JsonValueOf(llm.text) # NoValue
    /\ LET v == JsonValueOf(llm.text)
       IN /\ \E f \in ParsedFormats : llm.text = ResponseText(f, v)
          /\ v.kind = "rerank" /\ v.matchesOk /\ v.summaryOk
          /\ \A i \in 1..Len(v.matches) :
                /\ v.matches[i].wellTyped
                /\ v.matches[i].relevanceScore >= 0
                /\ v.matches[i].relevanceScore <= ScoreOne

\* C21: in every list RetrievalPipeline.search returns, each item's matchType is
\* llm-reranked when rerankAndFilter ran on that request, and the tag of the engine
\* that produced it when rerankAndFilter did not run.
C21_TagOfLastStage ==
    SearchReturned =>
        \A i \in 1..Len(ret.out.results) :
            ret.out.results[i].matchType =
                (IF ret.out.reranked THEN "llm-reranked" ELSE call.searchType)

\* C21 as the code has it: the items are llm-reranked when rerankAndFilter ran and
\* applied a valid answer; they carry the engine's tag when it did not run or when it
\* fell back to the engine's candidates.
C21_TagOfRankingOwner ==
    SearchReturned =>
        \A i \in 1..Len(ret.out.results) :
            ret.out.results[i].matchType =
                (IF ret.out.reranked /\ RerankAnswerValid(call.llm)
                 THEN "llm-reranked" ELSE call.searchType)

\* rerankAndFilter applied a valid answer and the returned items are llm-reranked
C21_Witness ==
    /\ SearchReturned
    /\ call.searchType = "hybrid"
    /\ ret.out.reranked /\ RerankAnswerValid(call.llm)
    /\ Len(ret.out.results) >= 2
    /\ \A i \in 1..Len(ret.out.results) : ret.out.results[i].matchType = "llm-reranked"

\* C23: during one RetrievalPipeline.search call each external operation is invoked
\* at most once, one keyword query, one embedding-plus-vector query, one chat-model
\* completion, and a failed operation is not invoked again; the chat model is not
\* called when stage 1 failed.
C23_EachOperationOnce ==
    SearchDone =>
        /\ ret.out.calls.keyword <= 1
        /\ ret.out.calls.embedding <= 1
        /\ ret.out.calls.vector <= 1
        /\ ret.out.calls.chat <= 1
        /\ ret.out.calls.storeWrite = 0
        /\ ~ret.out.ok => ret.out.calls.chat = 0

\* a hybrid search whose vector search failed: both engines were asked once, the
\* chat model never
C23_Witness ==
    /\ SearchDone
    /\ call.searchType = "hybrid"
    /\ rerankEnabled
    /\ ~call.store.vectorOk /\ call.store.keywordOk
    /\ ~ret.out.ok
    /\ ret.out.calls.keyword = 1 /\ ret.out.calls.embedding = 1
    /\ ret.out.calls.chat = 0

\* the candidates (name and email) a list holds
DistinctCandidates(results) ==
    {<<results[i].name, results[i].email>> : i \in 1..Len(results)}

\* C28: with re-ranking enabled RetrievalPipeline.search asks the engine for
\* retrievalTopK candidates whatever topK is, so even a request with topK above
\* retrievalTopK returns at most retrievalTopK distinct candidates; with re-ranking
\* disabled it asks the engine for topK.
C28_RetrievalCount ==
    SearchDone =>
        /\ ret.out.retrievalCount = (IF rerankEnabled THEN RetrievalTopK ELSE call.topK)
        /\ (ret.out.ok /\ rerankEnabled) =>
              Cardinality(DistinctCandidates(ret.out.results)) <= RetrievalTopK
        /\ ret.out.ok => Len(ret.out.results) <= call.topK

\* re-ranking is on, topK is above retrievalTopK, the store held more candidates than
\* retrievalTopK, and the fallback returned retrievalTopK of them
C28_Witness ==
    /\ SearchReturned
    /\ rerankEnabled
    /\ call.searchType = "hybrid"
    /\ call.topK > RetrievalTopK
    /\ Cardinality({call.store.hits[i].name : i \in 1..Len(call.store.hits)}
                   \cup {call.store.documents[i].name : i \in 1..Len(call.store.documents)})
          > RetrievalTopK
    /\ call.llm.throws
    /\ Len(ret.out.results) = RetrievalTopK

\* stage 1 of the search has nothing to return
StoreEmptyFor(c) ==
    CASE c.searchType = "keyword" -> c.store.documents = <<>>
      [] c.searchType = "vector" -> c.store.hits = <<>>
      [] c.searchType = "hybrid" -> c.store.documents = <<>> /\ c.store.hits = <<>>

\* C30: when stage 1 returns no candidates RetrievalPipeline.search returns an empty
\* list without calling the chat model; rerankAndFilter called with no candidates
\* returns no results and no verdicts without calling the chat model.
C30_EmptyNeedsNoModel ==
    /\ (SearchReturned /\ StoreEmptyFor(call)) =>
          /\ ret.out.results = <<>>
          /\ ret.out.calls.chat = 0
          /\ ~ret.out.reranked
    /\ (call.fn = "rerankAndFilter" /\ ret.done /\ call.candidates = <<>>) =>
          /\ ret.out.results = <<>>
          /\ ret.out.matches = <<>>
          /\ ret.out.llmCalls = 0

\* a search with re-ranking on and an empty store has returned
C30_Witness ==
    /\ SearchReturned
    /\ rerankEnabled
    /\ StoreEmptyFor(call)
    /\ ret.out.results = <<>>

\* ---- rerankAndFilter: schema violations (RerankSpec) ----
VerdictValid(match) ==
    match.wellTyped /\ match.relevanceScore >= 0 /\ match.relevanceScore <= ScoreOne

\* the answer is JSON the parser extracts, with a matches array and a summary, and a
\* verdict that violates the schema
SomeVerdictInvalid(llm) ==
    /\ ~llm.throws
    /\ JsonValueOf(llm.text) # NoValue
    /\ LET v == JsonValueOf(llm.text)
       IN /\ \E f \in ParsedFormats : llm.text = ResponseText(f, v)
          /\ v.kind = "rerank" /\ v.matchesOk /\ v.summaryOk
          /\ \E i \in 1..Len(v.matches) : ~VerdictValid(v.matches[i])

\* C29: if any verdict of the answer violates the schema, rerankAndFilter treats the
\* whole answer as a parse failure: it returns all input candidates unchanged and
\* applies none of the valid verdicts of that answer.
C29_OneBadVerdictRejectsAll ==
    (RerankReturned /\ call.candidates # <<>> /\ SomeVerdictInvalid(call.llm)) =>
        /\ ret.out.results = call.candidates
        /\ ret.out.summary = rerankParseFallback(<<>>).summary
        /\ \A i \in 1..Len(ret.out.matches) :
              /\ ret.out.matches[i].name = call.candidates[i].name
              /\ ret.out.matches[i].relevanceScore = call.candidates[i].score

\* an answer with one verdict out of range and one valid verdict that accepts an
\* input candidate: the candidates came back unchanged
C29_Witness ==
    /\ RerankReturned
    /\ Len(call.candidates) = 2
    /\ SomeVerdictInvalid(call.llm)
    /\ \E i \in 1..Len(VerdictsOf(call.llm)) :
          /\ VerdictValid(VerdictsOf(call.llm)[i])
          /\ VerdictsOf(call.llm)[i].matchesCriteria
          /\ VerdictsOf(call.llm)[i].name \in CandidateNames
          /\ VerdictsOf(call.llm)[i].relevanceScore
                \notin {call.candidates[j].score : j \in 1..Len(call.candidates)}
    /\ ret.out.results = call.candidates

\* ---- KeywordSearchEngine.search: the score (PipeSpec) ----
\* min(raw / 30, 1) with raw = 1.0 count(text) + 2.0 count(name) + 1.5 count(email)
\* + 3.0 count(skills) + 2.5 count(role), count being the number of occurrences
ScoreByOccurrences(doc) ==
    LET raw2 == 2 * doc.occurrences.text + 4 * doc.occurrences.name
                + 3 * doc.occurrences.email + 6 * doc.occurrences.skills
                + 5 * doc.occurrences.role
    IN IF raw2 >= 60 THEN ScoreOne ELSE (raw2 * ScoreOne) \div 60

KeywordReturned ==
    SearchReturned /\ call.searchType = "keyword" /\ ~rerankEnabled

\* C27: the keyword score of a document is min(raw/30, 1) where raw weighs, field by
\* field, the number of occurrences of query tokens: text 1.0, name 2.0, email 1.5,
\* skills 3.0, role 2.5.
C27_ScoreCountsOccurrences ==
    KeywordReturned =>
        \A i \in 1..Len(ret.out.results) :
            \E j \in 1..Len(call.store.documents) :
                /\ call.store.documents[j].email = ret.out.results[i].email
                /\ ret.out.results[i].score = ScoreByOccurrences(call.store.documents[j])

\* a plain query over a document where no field holds a token twice: the score is the
\* weighted count
C27_Witness ==
    /\ KeywordReturned
    /\ call.query.groups = 0
    /\ Len(ret.out.results) = 1
    /\ \A f \in DOMAIN call.store.documents[1].occurrences :
          call.store.documents[1].occurrences[f] <= 1
    /\ ret.out.results[1].score = ScoreByOccurrences(call.store.documents[1])
    /\ ret.out.results[1].score > 0

\* ---- POST /chat: the topK field (Spec) ----
\* C26: the topK field of a chat request bounds the number of results of a
\* full-search chat request: the response carries at most topK search results.
C26_ChatTopKBounds ==
    \A r \in Requests :
        (req[r].pc = "done" /\ req[r].status = 200 /\ req[r].path = "hybrid") =>
            Len(req[r].searchResults) <= req[r].topK

\* ---- the endpoints together (ApiSpec) ----
\* this step is the answer of a handler outside POST /chat
Answers(fn) == call'.fn = fn /\ <<call, ret>>' # <<call, ret>>

\* C22: while the retrieval pipeline is not initialized, before initialization has
\* finished or for ever after it failed, every search request is answered with the
\* 'pipeline not initialized' error, and the server goes on answering; once it is
\* initialized it stays so, and no search or chat request gets that error.
C22_NotInitializedError ==
    /\ [](retrievalPipeline = "null" => ENABLED SearchResumes)
    /\ [][/\ Answers("searchResumes") =>
                /\ retrievalPipeline = "null" =>
                      ret'.status = 400 /\ ret'.error = NotInitialized /\ ret'.body = <<>>
                /\ retrievalPipeline # "null" => ret'.error # NotInitialized
          /\ retrievalPipeline = "ready" => retrievalPipeline' = "ready"
          /\ \A r \in Requests :
                (req[r].pc = "new" /\ req'[r].pc # "new" /\ retrievalPipeline # "null") =>
                    req'[r].response # NotInitialized]_vars

\* initialization has failed and a search request was answered with the error
C22_Witness ==
    /\ startup = "done"
    /\ retrievalPipeline = "null"
    /\ call.fn = "searchResumes"
    /\ ret.status = 400 /\ ret.error = NotInitialized

\* C24: a delete of a conversation removes its entry; after it a history request for
\* that id answers not-found, and the next chat request that supplies the id gets a
\* new manager with no messages and no cached results, so it takes the full search.
C24_DeleteForgets ==
    [][\A id \in ConvIds :
          /\ (Answers("delete") /\ call'.conversationId = id /\ ret'.status = 200) =>
                conversations'[id] = 0
          /\ (Answers("history") /\ call'.conversationId = id /\ conversations[id] = 0) =>
                ret'.status = 404
          /\ \A r \in Requests :
                (/\ req[r].pc = "new" /\ req'[r].pc # "new"
                 /\ req'[r].conversationId = id
                 /\ conversations[id] = 0) =>
                    /\ ~managers[req'[r].mgr].created
                    /\ managers'[req'[r].mgr].messages = <<>>
                    /\ managers'[req'[r].mgr].lastSearchResults = <<>>
                    /\ req'[r].path = "hybrid"]_vars

\* a conversation was answered and cached its results, was deleted, and the next
\* request that supplied its id runs the full search on another manager
C24_Witness ==
    \E q, r \in Requests :
        /\ q # r
        /\ req[q].conversationId = ClientId /\ req[q].pc = "done" /\ req[q].status = 200
        /\ managers[req[q].mgr].lastSearchResults # <<>>
        /\ req[r].supplied = ClientId /\ req[r].pc # "new"
        /\ req[r].mgr # req[q].mgr
        /\ req[r].path = "hybrid"

\* C25: a history request for an id the store does not hold answers not-found and
\* leaves the store as it was: no entry is created for that id.
C25_HistoryCreatesNothing ==
    [][(Answers("history") /\ conversations[call'.conversationId] = 0) =>
          /\ ret'.status = 404
          /\ ret'.body = <<>>
          /\ conversations' = conversations
          /\ managers' = managers]_vars

\* the store holds a conversation, and a history request for another id got not-found
C25_Witness ==
    /\ call.fn = "history"
    /\ ret.status = 404
    /\ conversations[call.conversationId] = 0
    /\ \E id \in ConvIds : conversations[id] # 0

\* ---- the vector engine (VectorSpec) ----
VectorReturned == call.fn = "vectorSearch" /\ ret.done

Max(a, b) == IF a > b THEN a ELSE b

\* the (document, raw score) pairs searchWithScores(query, topK) returns
StoreReturned == SliceTo(call.hits, call.topK)

\* C31: vector search returns one item per (document, raw score) pair the store
\* returned, in the store's order, with score = min(1, max(0, raw score)) and
\* matchType = vector; store results [(A, 0.92), (B, 0.55)] give [A(0.92), B(0.55)].
C31_OneItemPerHit ==
    VectorReturned =>
        /\ Len(ret.out) = Len(StoreReturned)
        /\ \A i \in 1..Len(ret.out) :
              /\ ret.out[i].name = StoreReturned[i].name
              /\ ret.out[i].email = StoreReturned[i].email
              /\ ret.out[i].score = Min(ScoreOne, Max(0, StoreReturned[i].score))
              /\ ret.out[i].matchType = "vector"

\* the store returned (A, 0.92), (B, 0.55) and the engine A(0.92), B(0.55)
C31_Witness ==
    /\ VectorReturned
    /\ Len(StoreReturned) = 2
    /\ StoreReturned[1].name = "A" /\ StoreReturned[1].score = Hundredths(92)
    /\ StoreReturned[2].name = "B" /\ StoreReturned[2].score = Hundredths(55)
    /\ Len(ret.out) = 2
    /\ ret.out[1].name = "A" /\ ret.out[1].score = Hundredths(92)
    /\ ret.out[2].name = "B" /\ ret.out[2].score = Hundredths(55)

\* ---- the order of equal scores (PipeSpec) ----
\* the place of the document with this email in the collection's answer
PlaceOf(documents, email) ==
    CHOOSE i \in 1..Len(documents) : documents[i].email = email

\* the names of a list, each once, at its first place
RECURSIVE FirstOccurrences(_)
FirstOccurrences(names) ==
    IF names = <<>> THEN <<>>
    ELSE LET front == FirstOccurrences(SubSeq(names, 1, Len(names) - 1))
             last == names[Len(names)]
         IN IF last \in Range(front) THEN front ELSE Append(front, last)

NamesOf(results) == [i \in 1..Len(results) |-> results[i].name]

\* the order in which the merge meets the names: vector results first, then the
\* keyword results whose name no vector result has
InsertionOrder(c) ==
    FirstOccurrences(
        NamesOf(vectorSearch(c.store.hits, 3 * ret.out.retrievalCount))
        \o NamesOf(keywordSearch(c.query, c.store.documents, 3 * ret.out.retrievalCount)))

RankOf(names, name) == CHOOSE i \in 1..Len(names) : names[i] = name

\* C32: the order of a result list is a function of the scores and of the store's
\* order: a keyword search lists equal scores in the order the collection returned
\* the documents, a hybrid search in the order the merge inserted them (vector
\* results first, then keyword-only results), higher scores first in both.
C32_TiesKeepStoreOrder ==
    (SearchReturned /\ ~rerankEnabled) =>
        LET results == ret.out.results
        IN /\ call.searchType = "keyword" =>
                \A i, j \in 1..Len(results) :
                    i < j =>
                        \/ results[i].score > results[j].score
                        \/ /\ results[i].score = results[j].score
                           /\ PlaceOf(call.store.documents, results[i].email)
                                 < PlaceOf(call.store.documents, results[j].email)
           /\ call.searchType = "hybrid" =>
                \A i, j \in 1..Len(results) :
                    i < j =>
                        \/ results[i].score > results[j].score
                        \/ /\ results[i].score = results[j].score
                           /\ RankOf(InsertionOrder(call), results[i].name)
                                 < RankOf(InsertionOrder(call), results[j].name)

\* a hybrid search merged a vector result and a keyword-only result into equal
\* scores and returned the vector result first
C32_Witness ==
    /\ SearchReturned /\ ~rerankEnabled
    /\ call.searchType = "hybrid"
    /\ Len(ret.out.results) = 2
    /\ Len(call.store.hits) = 1 /\ Len(call.store.documents) = 1
    /\ ret.out.results[1].score = ret.out.results[2].score
    /\ ret.out.results[1].name = call.store.hits[1].name
    /\ ret.out.results[2].name = call.store.documents[1].name

\* ---- rerankAndFilter: repeated and missing verdicts (RerankSpec) ----
\* C35: rerankAndFilter never returns more items than it was given and never returns
\* the same candidate twice, also when the answer holds several verdicts with the
\* same name.
C35_NoMoreNoTwice ==
    RerankReturned =>
        /\ Len(ret.out.results) <= Len(call.candidates)
        /\ \A i, j \in 1..Len(ret.out.results) :
              i # j => ~SameCandidate(ret.out.results[i], ret.out.results[j])

\* one candidate went in, the answer accepted its name twice, two items came out
C35_Witness ==
    /\ RerankAnswered
    /\ Len(call.candidates) = 1
    /\ Len(VerdictsOf(call.llm)) = 2
    /\ Len(ret.out.results) = 2
    /\ SameCandidate(ret.out.results[1], ret.out.results[2])

\* the returned analysis holds a rejecting verdict for this name
Rejected(name) ==
    \E k \in 1..Len(ret.out.matches) :
        ret.out.matches[k].name = name /\ ~ret.out.matches[k].matchesCriteria

\* C36: after a re-rank with a well-formed answer every input candidate is either in
\* the returned results or has a verdict with matchesCriteria = false in the returned
\* analysis; none disappears because the answer holds no verdict for it.
C36_ReturnedOrRejected ==
    RerankAnswered =>
        \A j \in 1..Len(call.candidates) :
            Returned(j) \/ Rejected(call.candidates[j].name)

\* two candidates of different names went in, the answer accepted the first and said
\* nothing of the second, and the second is neither returned nor rejected
C36_Witness ==
    /\ RerankAnswered
    /\ Len(call.candidates) = 2
    /\ call.candidates[1].name # call.candidates[2].name
    /\ Len(VerdictsOf(call.llm)) = 1
    /\ VerdictsOf(call.llm)[1].name = call.candidates[1].name
    /\ Returned(1)
    /\ ~Returned(2) /\ ~Rejected(call.candidates[2].name)

\* ---- POST /chat: the cache over the requests of a conversation (Spec) ----
\* request r writes the cache in this step
WritesCache(r) == Answered(r) /\ req[r].path = "hybrid"

\* C33: once a conversation holds non-empty cached results, every later chat request
\* that supplies its id takes the filter path, whatever its message, and no request
\* on that id replaces the cache; a full search that returns no results leaves the
\* cache empty, so that the next request on that id searches again.
C33_CacheSticks ==
    [][/\ \A r \in Requests :
             (Received(r) /\ req'[r].supplied # NoId
                 /\ CachedFor(r, req'[r].supplied) # <<>>) => req'[r].path = "filter"
       /\ \A m \in ManagerIds :
             managers[m].lastSearchResults # <<>> =>
                 managers'[m].lastSearchResults = managers[m].lastSearchResults
       /\ \A r \in Requests :
             (WritesCache(r) /\ req[r].searchResults = <<>>) =>
                 managers'[req[r].mgr].lastSearchResults = <<>>
       /\ \A r \in Requests :
             (Received(r) /\ CachedFor(r, req'[r].supplied) = <<>>) =>
                 req'[r].path = "hybrid"]_vars

\* what holds of the code instead: a request that arrives while the cache of its
\* conversation is non-empty takes the filter path, one that arrives while it is
\* empty searches, and a search that found nothing leaves the cache empty; a search
\* already in flight when the cache was filled still replaces it.
ArrivalsFollowCache ==
    [][/\ \A r \in Requests :
             (Received(r) /\ req'[r].supplied # NoId
                 /\ CachedFor(r, req'[r].supplied) # <<>>) => req'[r].path = "filter"
       /\ \A r \in Requests :
             (WritesCache(r) /\ req[r].searchResults = <<>>) =>
                 managers'[req[r].mgr].lastSearchResults = <<>>
       /\ \A r \in Requests :
             (Received(r) /\ CachedFor(r, req'[r].supplied) = <<>>) =>
                 req'[r].path = "hybrid"]_vars

\* two requests on one conversation both searched; the one that found candidates
\* was answered first, and the cache it filled is empty again
C33_Witness ==
    \E r, q \in Requests :
        /\ r # q /\ req[r].mgr = req[q].mgr
        /\ req[r].pc = "done" /\ req[r].status = 200 /\ req[r].path = "hybrid"
        /\ req[q].pc = "done" /\ req[q].status = 200 /\ req[q].path = "hybrid"
        /\ req[r].searchResults # <<>>
        /\ req[q].searchResults = <<>>
        /\ managers[req[r].mgr].lastSearchResults = <<>>

\* request r has ended with an error response
Failed(r) == req[r].pc = "done" /\ req[r].status = 400

\* C34: a chat request that ends in an error response leaves the shared state as it
\* was: for a request that sent no conversationId, whose generated id no other
\* request uses, the store has no entry for that id, and no manager of the request
\* holds a message or cached results.
C34_ErrorLeavesNoTrace ==
    \A r \in Requests :
        (Failed(r) /\ req[r].supplied = NoId) =>
            /\ conversations[r] = 0
            /\ req[r].mgr # 0 =>
                  /\ managers[req[r].mgr].messages = <<>>
                  /\ managers[req[r].mgr].lastSearchResults = <<>>

\* a request without conversationId failed in its search, and the store holds an
\* entry for the id generated for it
C34_Witness ==
    \E r \in Requests :
        /\ Failed(r) /\ req[r].supplied = NoId
        /\ req[r].response = "Hybrid search failed"
        /\ conversations[r] # 0
        /\ managers[conversations[r]].created
        /\ managers[conversations[r]].messages = <<>>

\* request r made the calls of a hybrid retrieval
Retrieved(r) ==
    req[r].calls.keyword = 1 /\ req[r].calls.embedding = 1 /\ req[r].calls.vector = 1

Arrives(r) == req[r].pc = "new" /\ req'[r].pc \in {"filter", "search"}

\* C37: a delete of conversation c that completes while a chat request on c is in
\* flight is not undone by that request: an absent id gets an entry only in the step
\* in which a chat request for it arrives, so the appends and the cache write of a
\* request that arrived before the delete leave c absent, and a history request for
\* c answers not-found for as long.
C37_DeleteNotUndone ==
    [][\A c \in ConvIds :
          /\ (conversations[c] = 0 /\ conversations'[c] # 0) =>
                \E r \in Requests : Arrives(r) /\ req'[r].conversationId = c
          /\ (Answers("history") /\ call'.conversationId = c /\ conversations[c] = 0) =>
                ret'.status = 404 /\ conversations'[c] = 0]_vars

\* a chat request on the client's conversation arrived, the conversation was deleted,
\* the request has appended its exchange to its manager and cached its results, and
\* the history request made last found no conversation
C37_Witness ==
    \E r \in Requests :
        /\ req[r].conversationId = ClientId /\ req[r].supplied = ClientId
        /\ req[r].pc = "done" /\ req[r].status = 200 /\ req[r].path = "hybrid"
        /\ \A q \in Requests : q # r => req[q].pc = "new"
        /\ conversations[ClientId] = 0
        /\ Len(managers[req[r].mgr].messages) = 2
        /\ managers[req[r].mgr].lastSearchResults # <<>>
        /\ call.fn = "history" /\ call.conversationId = ClientId
        /\ ret.status = 404

\* ---- the hybrid engine: one entry per name (PipeSpec) ----
HybridReturned == SearchReturned /\ call.searchType = "hybrid" /\ ~rerankEnabled

\* the names the two engines returned to the hybrid engine
EngineNames ==
    Range(NamesOf(vectorSearch(call.store.hits, 3 * ret.out.retrievalCount)))
    \cup Range(NamesOf(keywordSearch(call.query, call.store.documents,
                                     3 * ret.out.retrievalCount)))

\* C39: the list a hybrid search returns never holds two items with the same name:
\* the keyword and vector results that share a name are folded into one entry, so
\* the list has one item for each name the engines returned, up to topK.
C39_OneEntryPerName ==
    HybridReturned =>
        /\ \A i, j \in 1..Len(ret.out.results) :
              i < j => ret.out.results[i].name # ret.out.results[j].name
        /\ Range(NamesOf(ret.out.results)) \subseteq EngineNames
        /\ Len(ret.out.results) = Min(call.topK, Cardinality(EngineNames))

\* the vector store returned one resume of a name and the collection another resume
\* of the same name, and the hybrid list holds one item
C39_Witness ==
    /\ HybridReturned
    /\ call.topK > 1
    /\ Len(call.store.hits) = 1 /\ Len(call.store.documents) = 1
    /\ call.store.hits[1].name = call.store.documents[1].name
    /\ call.store.hits[1].email # call.store.documents[1].email
    /\ Len(ret.out.results) = 1
    /\ ret.out.results[1].name = call.store.hits[1].name

\* ---- the memory manager: pairs (MemSpec) ----
\* C40: with an even capacity and addExchange calls made one at a time, the history
\* of a conversation has even length and alternates user, assistant, starting with a
\* user message, each assistant message after the user message of its own exchange;
\* trimming never leaves an assistant message without that user message.
C40_PairsKept ==
    (MemQuiescent /\ maxMessages % 2 = 0) =>
        LET messages == managers[TheManager].messages
        IN /\ Len(messages) % 2 = 0
           /\ \A i \in 1..Len(messages) :
                 messages[i].role = (IF i % 2 = 1 THEN "user" ELSE "assistant")
           /\ \A i \in 1..Len(messages) :
                 i % 2 = 0 => messages[i - 1].req = messages[i].req

\* capacity 2: the third exchange has evicted the second, and the history is the
\* third pair alone
C40_Witness ==
    /\ MemQuiescent
    /\ maxMessages = 2
    /\ CallsDone = 3
    /\ managers[TheManager].messages =
          <<[role |-> "user", req |-> 3], [role |-> "assistant", req |-> 3]>>

====
